---- MODULE Spec2Model ----
(***************************************************************************)
(* Resolution and settlement engine of the Predora backend (src/index.js). *)
(*                                                                         *)
(* The store (Firestore) is the variable db; a dispatcher run (one POST    *)
(* /api/run-jobs request) is a process whose position and local variables  *)
(* are in runs[r].  Every await of the source is a step boundary; a batch  *)
(* commit is one step, as Firestore applies a WriteBatch atomically.       *)
(* env holds process.env.CRON_SECRET and the key the caller of the         *)
(* endpoint sends; hist is a ghost record of what the runs have done       *)
(* (evaluations, credits, rejected writes, refused requests).              *)
(*                                                                         *)
(* Time is counted in ticks of 24 hours.  Money amounts are exact          *)
(* rationals <<numerator, denominator>> (the source uses IEEE doubles).    *)
(* The points a poll pays are floored, so they are computed in doubles as  *)
(* the source computes them.                                               *)
(*                                                                         *)
(* createDailyMarkets and autoGenerateQuickPlays only add new documents    *)
(* (index.js:395, :457): the daily markets are counted per day, with the   *)
(* day's flag; the generated quick-play markets are not kept.              *)
(***************************************************************************)
EXTENDS Integers, Sequences, FiniteSets, TLC

VARIABLES now, env, db, runs, hist

vars == <<now, env, db, runs, hist>>

(***************************************************************************)
(* Bounds of the model.                                                    *)
(***************************************************************************)
\* number of clock ticks (24 h each) the model lets pass
MaxTime == 1
\* number of evaluations of one item after which the model starts no run
MaxEvals == 7
\* the same, when runs may overlap
MaxOverlapEvals == 2

(***************************************************************************)
(* Program constants.                                                      *)
(***************************************************************************)
\* index.js:583 and :728, "if (retryAttempts < 5)"
MaxRetryAttempts == 5
\* index.js:554, "poll.resolutionHours || 24"
DefaultResolutionHours == 24
\* index.js:618 and :658, "voterData.xpStaked || 10"
DefaultXpStaked == 10
\* index.js:388, "yesPool: 1000 * (yesP / 100), noPool: 1000 * (noP / 100)"
SeedPool == 1000

Runs == {"r1", "r2"}

\* a request is served in the first free slot
Before(o, r) == o = "r1" /\ r = "r2"
Users == {"u1", "u2", "u3"}
MarketIds == {"m1", "m2"}
PledgeIds == {"p1", "p2", "p3", "p4", "p5"}
PollIds == {"q1", "q2"}
QuickPlayIds == {"k1"}

\* snapshot.docs is in document-id order
MarketOrder == <<"m1", "m2">>
PledgeOrder == <<"p1", "p2", "p3", "p4", "p5">>
PollOrder == <<"q1", "q2">>
QuickPlayOrder == <<"k1">>
UserOrder == <<"u1", "u2", "u3">>

NoOutcome == "NONE"

(***************************************************************************)
(* Exact rationals.                                                        *)
(***************************************************************************)
RECURSIVE GCD(_, _)
GCD(a, b) == IF b = 0 THEN a ELSE GCD(b, a % b)

Rat(n, d) ==
    LET g == GCD(IF n < 0 THEN -n ELSE n, d)
    IN  IF n = 0 THEN <<0, 1>> ELSE <<n \div g, d \div g>>

RatAdd(x, y) == Rat(x[1] * y[2] + y[1] * x[2], x[2] * y[2])

RatDiv(x, y) == Rat(x[1] * y[2], x[2] * y[1])

RatLeq(x, y) == x[1] * y[2] <= y[1] * x[2]

Zero == <<0, 1>>

(***************************************************************************)
(* Helper functions of index.js.                                           *)
(***************************************************************************)
getMockPrice(asset) ==
    IF asset = "BNB" THEN <<500, 1>>
    ELSE IF asset = "CAKE" THEN <<7, 2>>
    ELSE <<1, 1>>

getBalanceField(asset) ==
    IF asset = "BNB" THEN "bnbBalance"
    ELSE IF asset = "CAKE" THEN "cakeBalance"
    ELSE "balance"

\* String.prototype.toUpperCase on the answers the model draws
toUpperCase(s) ==
    CASE s = "yes" -> "YES"
      [] s = "no" -> "NO"
      [] s = "ambiguous" -> "AMBIGUOUS"
      [] OTHER -> s

\* outcome.trim().replace(/^["']|["']$/g, '')
stripQuotes(s) ==
    CASE s = "\"opt_0\"" -> "opt_0"
      [] s = "\"opt_1\"" -> "opt_1"
      [] s = " opt_2 " -> "opt_2"
      [] OTHER -> s

\* new Date().toISOString().split('T')[0]: the day of a clock reading
DateOf(t) == (t * 24) \div 24

HoursOf(t) == t * 24

\* the documents of a collection, in document order
docs(order, collection) == SelectSeq(order, LAMBDA id : id \in DOMAIN collection)

(***************************************************************************)
(* The store.  Fields the engine never writes (question data, stakes,      *)
(* dates) are carried in the same records as the fields it writes.         *)
(***************************************************************************)
MultiOptions ==
    << [id |-> "opt_0", odds |-> 30],
       [id |-> "opt_1", odds |-> 50],
       [id |-> "opt_2", odds |-> 20] >>

Pledge(m, u, pick, amt, asset) ==
    [marketId |-> m, userId |-> u, pick |-> pick, amountUsd |-> amt,
     asset |-> asset, isResolved |-> FALSE, isWinner |-> FALSE, payout |-> Zero]

InitPledges ==
    [p \in PledgeIds |->
        CASE p = "p1" -> Pledge("m1", "u1", "YES", 100, "USD")
          [] p = "p2" -> Pledge("m1", "u2", "NO", 40, "BNB")
          [] p = "p3" -> Pledge("m2", "u1", "opt_1", 1000, "CAKE")
          [] p = "p4" -> Pledge("m2", "u3", "opt_0", 50, "USD")
          [] p = "p5" -> Pledge("m1", "u3", "YES", 1000, "USD")]

RECURSIVE stakedOn(_, _, _)
stakedOn(m, pick, ps) ==
    IF ps = {} THEN 0
    ELSE LET p == CHOOSE x \in ps : TRUE
         IN  (IF InitPledges[p].marketId = m /\ InitPledges[p].pick = pick
              THEN InitPledges[p].amountUsd ELSE 0)
                + stakedOn(m, pick, ps \ {p})

\* a side's pool: the seed the market was created with and the stakes on it
sidePool(m, percent, pick) ==
    (SeedPool * percent) \div 100 + stakedOn(m, pick, PledgeIds)

InitMarkets(noLoss) ==
    [m \in MarketIds |->
        IF m = "m1"
        THEN [marketStructure |-> "binary", options |-> <<>>,
              yesPercent |-> 40, noPercent |-> 60, isNoLoss |-> noLoss,
              yesPool |-> sidePool(m, 40, "YES"), noPool |-> sidePool(m, 60, "NO"),
              resolutionDate |-> 0,
              isResolved |-> FALSE, winningOutcome |-> NoOutcome]
        ELSE [marketStructure |-> "multi-option", options |-> MultiOptions,
              yesPercent |-> 0, noPercent |-> 0, isNoLoss |-> ~noLoss,
              yesPool |-> 0, noPool |-> 0,
              resolutionDate |-> 1,
              isResolved |-> FALSE, winningOutcome |-> NoOutcome]]

Vote(v, xp) == [vote |-> v, xpStaked |-> xp]

\* the voters maps a quick poll can hold in the model
PollShapes == {"split", "skewed", "tie", "oneSided", "noVotes", "malformed"}

VotersOf(shape) ==
    CASE shape = "split" ->
            [u \in {"u1", "u2", "u3"} |->
                CASE u = "u1" -> Vote("YES", 10)
                  [] u = "u2" -> Vote("YES", 20)
                  [] u = "u3" -> Vote("NO", 10)]
      [] shape = "skewed" ->
            [u \in {"u1", "u2", "u3"} |->
                CASE u = "u1" -> Vote("YES", 15)
                  [] u = "u2" -> Vote("YES", 11)
                  [] u = "u3" -> Vote("NO", 78)]
      [] shape = "tie" ->
            [u \in {"u1", "u2"} |->
                IF u = "u1" THEN Vote("YES", 30) ELSE Vote("NO", 50)]
      [] shape \in {"oneSided", "malformed"} -> [u \in {"u2"} |-> Vote("YES", 20)]
      [] shape = "noVotes" -> [u \in {} |-> Vote("YES", 0)]

Side(voters, v) == {u \in DOMAIN voters : voters[u].vote = v}

RECURSIVE SumStaked(_, _)
SumStaked(voters, S) ==
    IF S = {} THEN 0
    ELSE LET u == CHOOSE x \in S : TRUE
         IN  voters[u].xpStaked + SumStaked(voters, S \ {u})

\* a poll document as the voting flow leaves it: the counts and staked
\* totals are the sums over its voters map.  createdAt is a Firestore
\* Timestamp except in a malformed document, where it is a value without
\* toDate()
Poll(shape, createdAt, hours) ==
    LET voters == VotersOf(shape)
    IN  [createdAt |-> createdAt, createdAtIsTimestamp |-> shape # "malformed",
         resolutionHours |-> hours,
         voters |-> voters,
         yesVotes |-> Cardinality(Side(voters, "YES")),
         noVotes |-> Cardinality(Side(voters, "NO")),
         xpStakedYES |-> SumStaked(voters, Side(voters, "YES")),
         xpStakedNO |-> SumStaked(voters, Side(voters, "NO")),
         isResolved |-> FALSE, winningOutcome |-> NoOutcome,
         retryAttempts |-> 0]

InitPolls(shape) ==
    [q \in PollIds |->
        IF q = "q1" THEN Poll("split", -30, 24) ELSE Poll(shape, -1, 0)]

\* a quick-play market is new, or has been deferred four times by earlier
\* runs
InitialRetryAttempts == {0, MaxRetryAttempts - 1}

InitQuickPlays(retryAttempts) ==
    [k \in QuickPlayIds |->
        [expiresAt |-> 0, isResolved |-> FALSE, winningOutcome |-> NoOutcome,
         aiConfidence |-> NoOutcome, retryAttempts |-> retryAttempts]]

InitProfile ==
    [u \in Users |->
        [balance |-> Zero, bnbBalance |-> Zero, cakeBalance |-> Zero,
         xp |-> 0, streak |-> 1]]

InitLeaderboard == [u \in Users |-> [xp |-> 0, streak |-> 1]]

(***************************************************************************)
(* Write operations of a batch, and their atomic application.              *)
(***************************************************************************)
NoOp ==
    [kind |-> "none", id |-> "", src |-> <<"", "">>, via |-> "", outcome |-> NoOutcome,
     retry |-> 0, isWinner |-> FALSE, payout |-> Zero,
     field |-> "balance", amount |-> Zero, xp |-> 0, streak |-> "keep"]

MarketOp(m, w) ==
    [NoOp EXCEPT !.kind = "market", !.id = m, !.outcome = w]

PledgeOp(p, isWinner, payout) ==
    [NoOp EXCEPT !.kind = "pledge", !.id = p, !.isWinner = isWinner,
                 !.payout = payout]

\* streak is "inc" for FieldValue.increment(1), "zero" for the value 0,
\* "keep" when the update does not name the field
ProfileOp(u, src, field, amount, xp, streak) ==
    [NoOp EXCEPT !.kind = "profile", !.id = u, !.src = src, !.field = field,
                 !.amount = amount, !.xp = xp, !.streak = streak]

\* a leaderboard write that carries the streak and drops the points
LeaderboardOpNoXp(u, src, xp, streak) ==
    [NoOp EXCEPT !.kind = "leaderboard", !.id = u, !.src = src, !.streak = streak]

LeaderboardOp(u, src, xp, streak) ==
    [NoOp EXCEPT !.kind = "leaderboard", !.id = u, !.src = src, !.xp = xp,
                 !.streak = streak]

\* via records the decision the write was staged under
PollOp(q, w, retry, via) ==
    [NoOp EXCEPT !.kind = "poll", !.id = q, !.outcome = w, !.retry = retry,
                 !.via = via]

\* a poll without votes recorded as resolved NO
PollNoVotesAsNo(q) ==
    [NoOp EXCEPT !.kind = "pollNoVotes", !.id = q, !.outcome = "NO"]

PollNoVotesOp(q) ==
    [NoOp EXCEPT !.kind = "pollNoVotes", !.id = q, !.outcome = "NO_VOTES"]

RetryOp(q) == [NoOp EXCEPT !.kind = "retry", !.id = q]

ApplyStreak(old, streak) ==
    CASE streak = "inc" -> old + 1
      [] streak = "zero" -> 0
      [] OTHER -> old

ApplyOp(d, op) ==
    CASE op.kind = "market" ->
            [d EXCEPT !.markets[op.id].isResolved = TRUE,
                      !.markets[op.id].winningOutcome = op.outcome]
      [] op.kind = "pledge" ->
            [d EXCEPT !.pledges[op.id].isResolved = TRUE,
                      !.pledges[op.id].isWinner = op.isWinner,
                      !.pledges[op.id].payout = op.payout]
      [] op.kind = "profile" ->
            [d EXCEPT !.profile[op.id][op.field] = RatAdd(@, op.amount),
                      !.profile[op.id].xp = @ + op.xp,
                      !.profile[op.id].streak = ApplyStreak(@, op.streak)]
      [] op.kind = "leaderboard" ->
            [d EXCEPT !.leaderboard[op.id].xp = @ + op.xp,
                      !.leaderboard[op.id].streak = ApplyStreak(@, op.streak)]
      [] op.kind = "poll" ->
            [d EXCEPT !.polls[op.id].isResolved = TRUE,
                      !.polls[op.id].winningOutcome = op.outcome,
                      !.polls[op.id].retryAttempts = op.retry]
      [] op.kind = "pollNoVotes" ->
            [d EXCEPT !.polls[op.id].isResolved = TRUE,
                      !.polls[op.id].winningOutcome = op.outcome]
      [] op.kind = "retry" ->
            [d EXCEPT !.polls[op.id].retryAttempts = @ + 1]
      [] OTHER -> d

\* a commit that stops after its first write
ApplyFirst(d, batch) == IF batch = <<>> THEN d ELSE ApplyOp(d, Head(batch))

\* batch.commit(): every write of the batch, in the order it was added
RECURSIVE ApplyBatch(_, _)
ApplyBatch(d, batch) ==
    IF batch = <<>> THEN d ELSE ApplyBatch(ApplyOp(d, Head(batch)), Tail(batch))

\* a rejected commit that has written the first write of its batch
RejectBatchPartly(d, batch) == ApplyFirst(d, batch)

\* batch.commit() rejected: none of the writes of the batch
RejectBatch(d, batch) == d

(***************************************************************************)
(* Payout calculator of autoResolveMarkets.                                *)
(***************************************************************************)
isMultiOption(market) ==
    market.marketStructure = "multi-option" /\ Len(market.options) > 0

optionIds(market) == {market.options[i].id : i \in 1..Len(market.options)}

\* the answer taken as it comes, without the check against the option ids
marketOutcomeUnchecked(market, text) ==
    IF isMultiOption(market) THEN stripQuotes(text) ELSE toUpperCase(text)

\* the winningOutcome the job derives from the text the AI service returns
marketOutcome(market, text) ==
    IF isMultiOption(market)
    THEN LET w == stripQuotes(text)
         IN  IF w \notin optionIds(market) /\ toUpperCase(w) # "AMBIGUOUS"
             THEN "AMBIGUOUS"
             ELSE w
    ELSE toUpperCase(text)

isBinaryResolution(w) == w = "YES" \/ w = "NO"

isMultiOptionResolution(market, w) ==
    market.marketStructure = "multi-option" /\ w \in optionIds(market)

isValidResolution(market, w) ==
    isBinaryResolution(w) \/ isMultiOptionResolution(market, w)

\* odds that ignore the percentages recorded on a binary market
winningOddsDefault(market, w) ==
    IF market.marketStructure = "multi-option"
    THEN IF w \in optionIds(market)
         THEN LET i == CHOOSE j \in 1..Len(market.options) :
                           market.options[j].id = w
              IN  market.options[i].odds
         ELSE 100
    ELSE IF w = "YES" THEN 60 ELSE 40

winningOdds(market, w) ==
    IF market.marketStructure = "multi-option"
    THEN IF w \in optionIds(market)
         THEN LET i == CHOOSE j \in 1..Len(market.options) :
                           market.options[j].id = w
              IN  market.options[i].odds
         ELSE 100
    ELSE IF w = "YES"
         THEN (IF market.yesPercent # 0 THEN market.yesPercent ELSE 60)
         ELSE (IF market.noPercent # 0 THEN market.noPercent ELSE 40)

\* a return that never gives a loser its principal back
totalReturnLossBearing(market, w, pledge) ==
    IF pledge.pick = w
    THEN Rat(pledge.amountUsd * 100, winningOdds(market, w))
    ELSE Zero

totalReturnUsd(market, w, pledge) ==
    LET isWinner == pledge.pick = w
        payoutUsd == IF isWinner
                     THEN Rat(pledge.amountUsd * 100, winningOdds(market, w))
                     ELSE Zero
        principalReturn == IF market.isNoLoss
                           THEN Rat(pledge.amountUsd, 1)
                           ELSE Zero
    IN  IF isWinner THEN payoutUsd ELSE principalReturn

\* the points of a pledge without the multiplier of small stakes
xpChangeNoBonus(isWinner, amountUsd) ==
    LET base == 10 + (amountUsd \div 5)
    IN  IF ~isWinner THEN -10
        ELSE IF amountUsd >= 1000 THEN base \div 2
        ELSE base

xpChange(isWinner, amountUsd) ==
    LET base == 10 + (amountUsd \div 5)
    IN  IF ~isWinner THEN -10
        ELSE IF amountUsd <= 50 THEN base * 5
        ELSE IF amountUsd >= 1000 THEN base \div 2
        ELSE base

\* the three writes the job adds to the batch for one pledge
pledgeWrites(market, w, p, pledge) ==
    LET isWinner == pledge.pick = w
        total == totalReturnUsd(market, w, pledge)
        payoutAmount == RatDiv(total, getMockPrice(pledge.asset))
        xp == xpChange(isWinner, pledge.amountUsd)
        src == <<p, pledge.userId>>
    IN  << PledgeOp(p, isWinner, total),
           ProfileOp(pledge.userId, src, getBalanceField(pledge.asset),
                     payoutAmount, xp, IF isWinner THEN "inc" ELSE "zero"),
           LeaderboardOp(pledge.userId, src, xp, "keep") >>

\* the unresolved pledges of every market
pledgeSnapshotAll(d, m) ==
    SelectSeq(docs(PledgeOrder, d.pledges), LAMBDA p : ~d.pledges[p].isResolved)

\* pledges where marketId == m and isResolved == false, in document order
pledgeSnapshot(d, m) ==
    SelectSeq(docs(PledgeOrder, d.pledges),
              LAMBDA p : d.pledges[p].marketId = m /\ ~d.pledges[p].isResolved)

RECURSIVE pledgeBatch(_, _, _, _)
pledgeBatch(d, market, w, ps) ==
    IF ps = <<>> THEN <<>>
    ELSE pledgeWrites(market, w, Head(ps), d.pledges[Head(ps)])
            \o pledgeBatch(d, market, w, Tail(ps))

\* the batch of one market's settlement: the market first, then its pledges
marketBatch(d, m, market, w) ==
    <<MarketOp(m, w)>> \o pledgeBatch(d, market, w, pledgeSnapshot(d, m))

(***************************************************************************)
(* Dispatcher runs.                                                        *)
(***************************************************************************)
NoAnswer == [outcome |-> NoOutcome, confidence |-> NoOutcome, reasoning |-> NoOutcome]

\* pc, todo (the snapshot still to process, its head the current item), batch,
\* text (the answer of the AI service as returned) and answer are the run's
\* local variables
\* process.env.CRON_SECRET: not set (undefined), or a secret
NoSecret == "undefined"
Secrets == {NoSecret, "s3cret"}

\* the key the caller of the endpoint puts in its request bodies: absent
\* (undefined), the secret, or a guess
Keys == {NoSecret, "s3cret", "guess"}

\* a check of the key alone, without the test that a secret is configured
keyMatches(secret, key) == key = secret

\* the negation of (!CRON_SECRET || key !== CRON_SECRET)
authorized(secret, key) == ~(secret = NoSecret \/ key # secret)

\* key is the key of the request body the run was started with, todayId the
\* day createDailyMarkets has read from the clock
IdleRun ==
    [pc |-> "idle", key |-> NoSecret, todo |-> <<>>, batch |-> <<>>,
     text |-> NoOutcome, answer |-> NoAnswer, todayId |-> 0]

Items == MarketIds \cup PollIds \cup QuickPlayIds

PledgeStakes == {<<p, InitPledges[p].userId>> : p \in PledgeIds}

VoteStakes == PollIds \X Users

Stakes == PledgeStakes \cup VoteStakes

\* number of balance-record writes of a batch made on account of stake s
RECURSIVE creditsIn(_, _)
creditsIn(batch, s) ==
    IF batch = <<>> THEN 0
    ELSE (IF Head(batch).kind = "profile" /\ Head(batch).src = s THEN 1 ELSE 0)
            + creditsIn(Tail(batch), s)

\* points a batch adds to balance records on account of stake s
RECURSIVE pointsIn(_, _)
pointsIn(batch, s) ==
    IF batch = <<>> THEN 0
    ELSE (IF Head(batch).kind = "profile" /\ Head(batch).src = s
          THEN Head(batch).xp ELSE 0)
            + pointsIn(Tail(batch), s)

Committed(h, batch) ==
    [h EXCEPT !.settled = [s \in Stakes |-> @[s] + creditsIn(batch, s)],
              !.credited = [s \in Stakes |-> @[s] + pointsIn(batch, s)]]

Rejected(h) == [h EXCEPT !.rejected = TRUE]

\* an answer that is neither UNKNOWN nor of LOW confidence
isDecisive(answer) == answer.outcome # "UNKNOWN" /\ answer.confidence # "LOW"

\* a YES or NO of HIGH or MEDIUM confidence
isSure(answer) ==
    answer.outcome \in {"YES", "NO"} /\ answer.confidence \in {"HIGH", "MEDIUM"}

\* the days of the model's clock
Days == 0..MaxTime

\* const topics = ["global news", "crypto", "pop culture"]
Topics == <<"global news", "crypto", "pop culture">>

\* a store whose collections hold no item, and a balance record per user.
\* dailyFlags holds the days that have a dailyFlags document; dailyMarkets
\* counts, per day, the markets createDailyMarkets has added for that day
\* (their resolution dates lie beyond the days of the model, so they are
\* counted and not kept as items)
Empty ==
    [markets |-> <<>>, pledges |-> <<>>, polls |-> <<>>, quickPlays |-> <<>>,
     profile |-> InitProfile, leaderboard |-> InitLeaderboard,
     dailyFlags |-> {}, dailyMarkets |-> [d \in Days |-> 0]]

\* a store in which the daily creation of day 0 has been done by an earlier
\* run
FlaggedToday == [Empty EXCEPT !.dailyFlags = {0}]

\* the topics for which the AI service returns a create_market_form call
TopicSets == SUBSET {Topics[i] : i \in 1..Len(Topics)}

Init ==
    /\ now = 0
    /\ env \in [CRON_SECRET : Secrets, key : Keys, topics : TopicSets]
    /\ \/ /\ env.topics = {}
          /\ \/ \E noLoss \in BOOLEAN :
                   db = [FlaggedToday EXCEPT !.markets = InitMarkets(noLoss),
                                             !.pledges = InitPledges]
             \/ \E shape \in PollShapes :
                   db = [FlaggedToday EXCEPT !.polls = InitPolls(shape)]
             \/ \E retryAttempts \in InitialRetryAttempts :
                   db = [FlaggedToday EXCEPT
                            !.quickPlays = InitQuickPlays(retryAttempts)]
       \/ db = Empty
    /\ runs = [r \in Runs |-> IdleRun]
    /\ hist = [evals |-> [i \in Items |-> 0],
               settled |-> [s \in Stakes |-> 0],
               credited |-> [s \in Stakes |-> 0],
               decisive |-> {},
               rejected |-> FALSE,
               denied |-> FALSE]

Tick ==
    /\ now < MaxTime
    /\ now' = now + 1
    /\ UNCHANGED <<env, db, runs, hist>>

\* POST /api/run-jobs with a key the handler accepts: the jobs start
StartRun(r, cap) ==
    /\ runs[r].pc = "idle"
    /\ \A o \in Runs : runs[o].pc = "idle" => ~Before(o, r)
    /\ \A i \in Items : hist.evals[i] < cap
    /\ authorized(env.CRON_SECRET, env.key)
    /\ runs' = [runs EXCEPT ![r] = [IdleRun EXCEPT !.pc = "mQuery",
                                                   !.key = env.key]]
    /\ UNCHANGED <<now, env, db, hist>>

\* POST /api/run-jobs with a key the handler refuses: 401 and nothing else
Unauthorized ==
    /\ ~authorized(env.CRON_SECRET, env.key)
    /\ hist' = [hist EXCEPT !.denied = TRUE]
    /\ UNCHANGED <<now, env, db, runs>>

\* a run starts only when no other run is in progress
StartRunAlone(r) ==
    /\ \A o \in Runs : runs[o].pc = "idle"
    /\ StartRun(r, MaxEvals)

Snap(id, retry) == [id |-> id, retryAttempts |-> retry]

\* the due filter alone, without the isResolved == false query
marketsDue(d, today) ==
    LET due == SelectSeq(docs(MarketOrder, d.markets),
                         LAMBDA m : d.markets[m].resolutionDate <= today)
    IN  [i \in 1..Len(due) |-> Snap(due[i], 0)]

\* the isResolved == false query alone, without the due filter
marketsUnresolved(d, today) ==
    LET open == SelectSeq(docs(MarketOrder, d.markets),
                          LAMBDA m : ~d.markets[m].isResolved)
    IN  [i \in 1..Len(open) |-> Snap(open[i], 0)]

marketsToResolve(d, today) ==
    LET due == SelectSeq(docs(MarketOrder, d.markets),
                         LAMBDA m : ~d.markets[m].isResolved
                                    /\ d.markets[m].resolutionDate <= today)
    IN  [i \in 1..Len(due) |-> Snap(due[i], 0)]

\* await q.get(), which is outside every try of the job: when it fails the
\* handler answers 500
MarketsQuery(r) ==
    /\ runs[r].pc = "mQuery"
    /\ \/ LET todo == marketsToResolve(db, DateOf(now))
          IN  runs' = [runs EXCEPT ![r].todo = todo,
                                   ![r].pc = IF todo = <<>> THEN "dFlag"
                                             ELSE "mVerify"]
       \/ runs' = [runs EXCEPT ![r].pc = "failed"]
    /\ UNCHANGED <<now, env, db, hist>>

\* texts the AI service returns for a market question
MarketAnswers ==
    {"YES", "no", "AMBIGUOUS", "opt_0", "\"opt_1\"", "opt_9"}

\* the loop of autoResolveMarkets moves to its next market
nextMarket(run) ==
    [run EXCEPT !.todo = Tail(@), !.batch = <<>>, !.text = NoOutcome,
                !.answer = NoAnswer,
                !.pc = IF Tail(run.todo) = <<>> THEN "dFlag" ELSE "mVerify"]

\* await callGoogleApi(payload) for the market at the head of the loop
MarketVerify(r) ==
    /\ runs[r].pc = "mVerify"
    /\ LET m == Head(runs[r].todo).id
       IN  /\ hist' = [hist EXCEPT !.evals[m] = @ + 1]
           /\ \/ \E text \in MarketAnswers :
                    runs' = [runs EXCEPT
                        ![r].text = text,
                        ![r].answer = [outcome |-> marketOutcome(db.markets[m], text),
                                       confidence |-> NoOutcome,
                                       reasoning |-> NoOutcome],
                        ![r].pc = "mSettle"]
              \/ runs' = [runs EXCEPT ![r] = nextMarket(@)]
    /\ UNCHANGED <<now, env, db>>

\* the resolution check, and await pledgeQuery.get() with the batch built
MarketSettle(r) ==
    /\ runs[r].pc = "mSettle"
    /\ LET m == Head(runs[r].todo).id
           w == runs[r].answer.outcome
       IN  IF isValidResolution(db.markets[m], w)
           THEN runs' = [runs EXCEPT
                    ![r].batch = marketBatch(db, m, db.markets[m], w),
                    ![r].pc = "mCommit"]
           ELSE runs' = [runs EXCEPT ![r] = nextMarket(@)]
    /\ UNCHANGED <<now, env, db, hist>>

\* await batch.commit(): all of the batch, or (the commit rejected) none
MarketCommit(r) ==
    /\ runs[r].pc = "mCommit"
    /\ \/ /\ db' = ApplyBatch(db, runs[r].batch)
          /\ hist' = Committed(hist, runs[r].batch)
          /\ runs' = [runs EXCEPT ![r] = nextMarket(@)]
       \/ /\ hist' = Rejected(hist)
          /\ runs' = [runs EXCEPT ![r] = nextMarket(@)]
          /\ db' = RejectBatch(db, runs[r].batch)
    /\ UNCHANGED <<now, env>>

(***************************************************************************)
(* createDailyMarkets and autoGenerateQuickPlays.                          *)
(***************************************************************************)
\* most markets the daily job is let add for one day in the model
MaxDailyMarkets == 6

topicsToDo == [i \in 1..Len(Topics) |-> Snap(Topics[i], 0)]

\* await flagRef.get() for todayId, outside every try: when it fails the
\* handler answers 500
DailyFlag(r) ==
    /\ runs[r].pc = "dFlag"
    /\ \/ runs' = [runs EXCEPT
                ![r].todayId = DateOf(now),
                ![r].todo = IF DateOf(now) \in db.dailyFlags THEN <<>>
                            ELSE topicsToDo,
                ![r].pc = IF DateOf(now) \in db.dailyFlags THEN "generate"
                          ELSE "dTopic"]
       \/ runs' = [runs EXCEPT ![r].pc = "failed"]
    /\ UNCHANGED <<now, env, db, hist>>

\* one topic of the loop: the two AI calls and, when they deliver a market,
\* await db.collection(...).add(newMarketDoc); a failure is caught and logged
DailyTopic(r) ==
    /\ runs[r].pc = "dTopic"
    /\ LET topic == Head(runs[r].todo).id
           day == runs[r].todayId
       IN  /\ db' = IF topic \in env.topics /\ db.dailyMarkets[day] < MaxDailyMarkets
                    THEN [db EXCEPT !.dailyMarkets[day] = @ + 1]
                    ELSE db
           /\ runs' = [runs EXCEPT
                    ![r].todo = Tail(@),
                    ![r].pc = IF Tail(runs[r].todo) = <<>> THEN "dSet"
                              ELSE "dTopic"]
    /\ UNCHANGED <<now, env, hist>>

\* await flagRef.set(...), outside every try: when it fails the handler
\* answers 500 and the day has no flag
DailySet(r) ==
    /\ runs[r].pc = "dSet"
    /\ \/ /\ db' = [db EXCEPT !.dailyFlags = @ \cup {runs[r].todayId}]
          /\ runs' = [runs EXCEPT ![r].todayId = 0, ![r].pc = "generate"]
       \/ /\ db.dailyMarkets[runs[r].todayId] + Len(Topics) <= MaxDailyMarkets
          /\ runs' = [runs EXCEPT ![r].todayId = 0, ![r].pc = "failed"]
          /\ UNCHANGED db
    /\ UNCHANGED <<now, env, hist>>

\* autoGenerateQuickPlays: each of its two topics is in a try of its own.
\* The quick-play markets it adds expire 24 to 48 hours later, after the
\* last run of the model, and are not kept
Generate(r) ==
    /\ runs[r].pc = "generate"
    /\ runs' = [runs EXCEPT ![r].todayId = 0, ![r].pc = "pQuery"]
    /\ UNCHANGED <<now, env, db, hist>>

(***************************************************************************)
(* verifyOutcomeWithAI, the retry governor and the poll payout calculator. *)
(***************************************************************************)
Outcomes == {"YES", "NO", "UNKNOWN", "MAYBE"}
Confidences == {"HIGH", "MEDIUM", "LOW"}

\* what the AI service can do with a verification request: fail, or return a
\* JSON object with a free-form outcome and confidence
ServiceResponses ==
    {[ok |-> FALSE, outcome |-> NoOutcome, confidence |-> NoOutcome,
      reasoning |-> NoOutcome]}
        \cup {[ok |-> TRUE, outcome |-> o, confidence |-> c,
               reasoning |-> "evidence"] :
                o \in Outcomes, c \in Confidences}

\* a verifier whose catch answers YES with HIGH confidence
verifyOutcomeOrYes(response) ==
    IF response.ok
    THEN [outcome |-> response.outcome, confidence |-> response.confidence,
          reasoning |-> response.reasoning]
    ELSE [outcome |-> "YES", confidence |-> "HIGH",
          reasoning |-> "AI verification error"]

\* the parsed result of the service, or the answer of the catch when the call
\* or JSON.parse throws
verifyOutcomeWithAI(response) ==
    IF response.ok
    THEN [outcome |-> response.outcome, confidence |-> response.confidence,
          reasoning |-> response.reasoning]
    ELSE [outcome |-> "UNKNOWN", confidence |-> "LOW",
          reasoning |-> "AI verification error"]

isUncertain(answer) == answer.outcome = "UNKNOWN" \/ answer.confidence = "LOW"

\* a governor that gives up one attempt early
decisionEarly(answer, retryAttempts) ==
    IF isUncertain(answer)
    THEN IF retryAttempts < MaxRetryAttempts - 1 THEN "DEFERRED" ELSE "FALLBACK"
    ELSE "ACCEPTED"

\* a governor that allows one attempt more
decisionLate(answer, retryAttempts) ==
    IF isUncertain(answer)
    THEN IF retryAttempts <= MaxRetryAttempts THEN "DEFERRED" ELSE "FALLBACK"
    ELSE "ACCEPTED"

\* a governor that accepts HIGH confidence only
decisionHighOnly(answer, retryAttempts) ==
    IF answer.outcome = "UNKNOWN" \/ answer.confidence # "HIGH"
    THEN IF retryAttempts < MaxRetryAttempts THEN "DEFERRED" ELSE "FALLBACK"
    ELSE "ACCEPTED"

\* the governor's decision for one evaluation
decision(answer, retryAttempts) ==
    IF isUncertain(answer)
    THEN IF retryAttempts < MaxRetryAttempts THEN "DEFERRED" ELSE "FALLBACK"
    ELSE "ACCEPTED"

\* a majority rule that gives a tie to YES
majorityOrYes(yesVotes, noVotes) == IF yesVotes >= noVotes THEN "YES" ELSE "NO"

majorityVote(yesVotes, noVotes) ==
    IF yesVotes > noVotes THEN "YES"
    ELSE IF yesVotes < noVotes THEN "NO"
    ELSE "TIE"

(***************************************************************************)
(* IEEE 754 double arithmetic on the values the poll calculator computes.  *)
(* A double is [m, e]: m its 53 mantissa bits, most significant first, e   *)
(* the exponent of its last bit; its value is m * 2^e.                     *)
(***************************************************************************)
MantissaBits == 53

RECURSIVE BitsOf(_)
\* the binary digits of n, most significant first
BitsOf(n) == IF n = 0 THEN <<>> ELSE BitsOf(n \div 2) \o <<n % 2>>

RECURSIVE IntOf(_)
IntOf(bits) ==
    IF bits = <<>> THEN 0
    ELSE 2 * IntOf(SubSeq(bits, 1, Len(bits) - 1)) + bits[Len(bits)]

Rev(s) == [i \in 1..Len(s) |-> s[Len(s) + 1 - i]]

Zeros(n) == [i \in 1..n |-> 0]

RECURSIVE IncLsb(_)
\* bits, least significant first, plus one
IncLsb(bits) ==
    IF bits = <<>> THEN <<1>>
    ELSE IF Head(bits) = 0 THEN <<1>> \o Tail(bits)
    ELSE <<0>> \o IncLsb(Tail(bits))

RECURSIVE MulLsb(_, _, _)
\* bits, least significant first, times the integer l, plus carry
MulLsb(bits, l, carry) ==
    IF bits = <<>> THEN Rev(BitsOf(carry))
    ELSE LET t == Head(bits) * l + carry
         IN  <<t % 2>> \o MulLsb(Tail(bits), l, t \div 2)

RECURSIVE AddLsb(_, _, _)
\* the sum of two bit strings, least significant first
AddLsb(a, b, carry) ==
    IF a = <<>> /\ b = <<>> THEN (IF carry = 1 THEN <<1>> ELSE <<>>)
    ELSE LET x == IF a = <<>> THEN 0 ELSE Head(a)
             y == IF b = <<>> THEN 0 ELSE Head(b)
             t == x + y + carry
         IN  <<t % 2>> \o AddLsb(IF a = <<>> THEN a ELSE Tail(a),
                                 IF b = <<>> THEN b ELSE Tail(b), t \div 2)

\* round to nearest, ties to even: bits (most significant first, the first
\* one 1, at least 53 of them) with last-bit exponent e, and sticky telling
\* whether the exact value has non-zero digits below bits
RoundDouble(bits, e, sticky) ==
    LET n == Len(bits)
        kept == SubSeq(bits, 1, MantissaBits)
        guard == IF n > MantissaBits THEN bits[MantissaBits + 1] ELSE 0
        rest == sticky \/ \E i \in (MantissaBits + 2)..n : bits[i] = 1
        up == guard = 1 /\ (rest \/ kept[MantissaBits] = 1)
        e2 == e + (n - MantissaBits)
        inc == Rev(IncLsb(Rev(kept)))
    IN  IF ~up THEN [m |-> kept, e |-> e2]
        ELSE IF Len(inc) > MantissaBits
        THEN [m |-> SubSeq(inc, 1, MantissaBits), e |-> e2 + 1]
        ELSE [m |-> inc, e |-> e2]

RECURSIVE DivBits(_, _, _, _)
\* long division: the digits of the quotient after acc, remainder r, until
\* 54 significant digits are known
DivBits(r, w, acc, e) ==
    IF Len(acc) = MantissaBits + 1 THEN RoundDouble(acc, e, r # 0)
    ELSE LET b == IF 2 * r >= w THEN 1 ELSE 0
         IN  DivBits(2 * r - b * w, w,
                     IF acc = <<>> /\ b = 0 THEN acc ELSE acc \o <<b>>, e - 1)

\* x / w for integers x >= 1, w >= 1
DoubleDiv(x, w) == DivBits(x % w, w, BitsOf(x \div w), 0)

\* l * f for an integer l >= 1
DoubleMul(l, f) == RoundDouble(Rev(MulLsb(Rev(f.m), l, 0)), f.e, FALSE)

\* x + f for an integer x >= 0 and a double f with f.e <= 0
DoubleAdd(x, f) ==
    RoundDouble(Rev(AddLsb(Rev(f.m), Zeros(-f.e) \o Rev(BitsOf(x)), 0)), f.e, FALSE)

\* Math.floor(f) for a double f with f.e <= 0
MathFloor(f) ==
    IF MantissaBits + f.e <= 0 THEN 0 ELSE IntOf(SubSeq(f.m, 1, MantissaBits + f.e))

\* Math.floor(xpStaked + (loserPot * (xpStaked / winnerPot))) in doubles
floorOfShare(xpStaked, winnerPot, loserPot) ==
    IF loserPot = 0 THEN xpStaked
    ELSE MathFloor(DoubleAdd(xpStaked, DoubleMul(loserPot, DoubleDiv(xpStaked, winnerPot))))

\* the stakes and pots of the polls of the model, and floorOfShare on them,
\* computed once
PotCases ==
    UNION {LET voters == VotersOf(shape)
               yes == SumStaked(voters, Side(voters, "YES"))
               no == SumStaked(voters, Side(voters, "NO"))
           IN  {<<voters[u].xpStaked, yes, no>> : u \in DOMAIN voters}
                   \cup {<<voters[u].xpStaked, no, yes>> : u \in DOMAIN voters}
           : shape \in PollShapes}

ShareTable ==
    [t \in {c \in PotCases : c[1] > 0 /\ c[2] > 0} |-> floorOfShare(t[1], t[2], t[3])]

\* winnerShare = winnerPot > 0 ? xpStaked / winnerPot : 0, and the floor of
\* xpStaked + loserPot * winnerShare
winnings(xpStaked, winnerPot, loserPot) ==
    IF winnerPot > 0
    THEN IF <<xpStaked, winnerPot, loserPot>> \in DOMAIN ShareTable
         THEN ShareTable[<<xpStaked, winnerPot, loserPot>>]
         ELSE floorOfShare(xpStaked, winnerPot, loserPot)
    ELSE xpStaked

xpStakedOf(voterData) ==
    IF voterData.xpStaked # 0 THEN voterData.xpStaked ELSE DefaultXpStaked

\* voter writes without the tie branch: on TIE every voter is a loser
voterWritesNoTie(q, poll, w, u) ==
    LET voterData == poll.voters[u]
        xpStaked == xpStakedOf(voterData)
        winnerPot == IF w = "YES" THEN poll.xpStakedYES ELSE poll.xpStakedNO
        loserPot == IF w = "YES" THEN poll.xpStakedNO ELSE poll.xpStakedYES
        won == winnings(xpStaked, winnerPot, loserPot)
    IN  IF voterData.vote = w
        THEN << ProfileOp(u, <<q, u>>, "balance", Zero, won, "inc"),
                LeaderboardOp(u, <<q, u>>, won, "keep") >>
        ELSE << ProfileOp(u, <<q, u>>, "balance", Zero, 0, "zero"),
                LeaderboardOp(u, <<q, u>>, 0, "zero") >>

\* voter writes that leave a loser's streak as it is
voterWritesKeepStreak(q, poll, w, u) ==
    LET voterData == poll.voters[u]
        xpStaked == xpStakedOf(voterData)
        winnerPot == IF w = "YES" THEN poll.xpStakedYES ELSE poll.xpStakedNO
        loserPot == IF w = "YES" THEN poll.xpStakedNO ELSE poll.xpStakedYES
        won == winnings(xpStaked, winnerPot, loserPot)
    IN  IF w = "TIE"
        THEN << ProfileOp(u, <<q, u>>, "balance", Zero, xpStaked, "keep"),
                LeaderboardOp(u, <<q, u>>, xpStaked, "keep") >>
        ELSE IF voterData.vote = w
        THEN << ProfileOp(u, <<q, u>>, "balance", Zero, won, "inc"),
                LeaderboardOp(u, <<q, u>>, won, "keep") >>
        ELSE << ProfileOp(u, <<q, u>>, "balance", Zero, 0, "keep"),
                LeaderboardOp(u, <<q, u>>, 0, "keep") >>

\* the two writes the job adds to the batch for one voter of a resolved poll
voterWrites(q, poll, w, u) ==
    LET voterData == poll.voters[u]
        xpStaked == xpStakedOf(voterData)
        winnerPot == IF w = "YES" THEN poll.xpStakedYES ELSE poll.xpStakedNO
        loserPot == IF w = "YES" THEN poll.xpStakedNO ELSE poll.xpStakedYES
        won == winnings(xpStaked, winnerPot, loserPot)
    IN  IF w = "TIE"
        THEN << ProfileOp(u, <<q, u>>, "balance", Zero, xpStaked, "keep"),
                LeaderboardOp(u, <<q, u>>, xpStaked, "keep") >>
        ELSE IF voterData.vote = w
        THEN << ProfileOp(u, <<q, u>>, "balance", Zero, won, "inc"),
                LeaderboardOp(u, <<q, u>>, won, "keep") >>
        ELSE << ProfileOp(u, <<q, u>>, "balance", Zero, 0, "zero"),
                LeaderboardOp(u, <<q, u>>, 0, "zero") >>

\* Object.entries(poll.voters)
voterEntries(poll) == SelectSeq(UserOrder, LAMBDA u : u \in DOMAIN poll.voters)

RECURSIVE votersBatch(_, _, _, _)
votersBatch(q, poll, w, us) ==
    IF us = <<>> THEN <<>>
    ELSE voterWrites(q, poll, w, Head(us)) \o votersBatch(q, poll, w, Tail(us))

\* the writes of one poll's resolution with outcome w
pollBatch(q, poll, w, retryAttempts, via) ==
    <<PollOp(q, w, retryAttempts, via)>>
        \o votersBatch(q, poll, w, voterEntries(poll))

\* a deferral without its "continue": the resolution follows the increment
pollWritesNoContinue(q, poll, answer, retryAttempts) ==
    LET d == decision(answer, retryAttempts)
    IN  IF d = "DEFERRED"
        THEN <<RetryOp(q)>> \o pollBatch(q, poll, answer.outcome, retryAttempts, d)
        ELSE IF d = "FALLBACK"
        THEN pollBatch(q, poll, majorityVote(poll.yesVotes, poll.noVotes),
                       retryAttempts, d)
        ELSE pollBatch(q, poll, answer.outcome, retryAttempts, d)

\* what one evaluation of a poll with votes adds to the run's batch
pollWrites(q, poll, answer, retryAttempts) ==
    LET d == decision(answer, retryAttempts)
    IN  IF d = "DEFERRED" THEN <<RetryOp(q)>>
        ELSE IF d = "FALLBACK"
        THEN pollBatch(q, poll, majorityVote(poll.yesVotes, poll.noVotes),
                       retryAttempts, d)
        ELSE pollBatch(q, poll, answer.outcome, retryAttempts, d)

resolutionHoursOf(poll) ==
    IF poll.resolutionHours # 0 THEN poll.resolutionHours
    ELSE DefaultResolutionHours

\* createdAt < now - resolutionHours
pollIsDue(poll, t) == poll.createdAt < HoursOf(t) - resolutionHoursOf(poll)

\* poll.createdAt?.toDate() raises a TypeError when createdAt is not a
\* Timestamp
toDateThrows(poll) == ~poll.createdAtIsTimestamp

\* the unresolved polls the loop does not skip: the due ones, and the ones on
\* which it throws before it reaches the due check
pollsToResolve(d, t) ==
    LET due == SelectSeq(docs(PollOrder, d.polls),
                         LAMBDA q : /\ ~d.polls[q].isResolved
                                    /\ \/ toDateThrows(d.polls[q])
                                       \/ pollIsDue(d.polls[q], t))
    IN  [i \in 1..Len(due) |-> Snap(due[i], d.polls[due[i]].retryAttempts)]

\* await pollsRef...get(); when it fails the catch of the job ends the job
PollsQuery(r) ==
    /\ runs[r].pc = "pQuery"
    /\ \/ LET todo == pollsToResolve(db, now)
          IN  runs' = [runs EXCEPT ![r].todo = todo, ![r].batch = <<>>,
                                   ![r].answer = NoAnswer,
                                   ![r].pc = IF todo = <<>> THEN "kQuery"
                                             ELSE "pVerify"]
       \/ runs' = [runs EXCEPT ![r].todo = <<>>, ![r].batch = <<>>,
                                ![r].answer = NoAnswer, ![r].pc = "kQuery"]
    /\ UNCHANGED <<now, env, db, hist>>

\* the loop of autoResolveQuickPolls moves to its next poll
nextPoll(run) ==
    [run EXCEPT !.todo = Tail(@), !.answer = NoAnswer,
                !.pc = IF Tail(run.todo) = <<>> THEN "pCommit" ELSE "pVerify"]

\* an exception of the poll job that reaches the handler
pollJobThrowsFatal(run) ==
    [run EXCEPT !.todo = <<>>, !.batch = <<>>, !.answer = NoAnswer,
                !.pc = "failed"]

\* the catch of autoResolveQuickPolls: the job ends, its batch is never
\* committed, and the trigger goes on to the quick-play job
pollJobThrows(run) ==
    [run EXCEPT !.todo = <<>>, !.batch = <<>>, !.answer = NoAnswer,
                !.pc = "kQuery"]

\* an exception on the poll's data ends the job; a poll without votes is
\* staged as NO_VOTES; otherwise await verifyOutcomeWithAI(poll.question)
PollVerify(r) ==
    /\ runs[r].pc = "pVerify"
    /\ LET q == Head(runs[r].todo).id
           poll == db.polls[q]
       IN  IF toDateThrows(poll)
           THEN /\ runs' = [runs EXCEPT ![r] = pollJobThrows(@)]
                /\ hist' = Rejected(hist)
           ELSE IF poll.yesVotes + poll.noVotes = 0
           THEN /\ runs' = [runs EXCEPT
                        ![r] = nextPoll([@ EXCEPT !.batch = @ \o <<PollNoVotesOp(q)>>])]
                /\ hist' = [hist EXCEPT !.evals[q] = @ + 1]
           ELSE \E response \in ServiceResponses :
                    LET answer == verifyOutcomeWithAI(response)
                    IN  /\ runs' = [runs EXCEPT ![r].answer = answer,
                                                ![r].pc = "pDecide"]
                        /\ hist' = [hist EXCEPT
                                !.evals[q] = @ + 1,
                                !.decisive = IF isDecisive(answer) THEN @ \cup {q} ELSE @]
    /\ UNCHANGED <<now, env, db>>

PollDecide(r) ==
    /\ runs[r].pc = "pDecide"
    /\ LET snap == Head(runs[r].todo)
           q == snap.id
           answer == runs[r].answer
       IN  runs' = [runs EXCEPT
                ![r] = nextPoll([@ EXCEPT
                    !.batch = @ \o pollWrites(q, db.polls[q], answer, snap.retryAttempts)])]
    /\ UNCHANGED <<now, env, db, hist>>

\* if (batchHasUpdates) await batch.commit()
PollsCommit(r) ==
    /\ runs[r].pc = "pCommit"
    /\ \/ /\ db' = ApplyBatch(db, runs[r].batch)
          /\ hist' = Committed(hist, runs[r].batch)
          /\ runs' = [runs EXCEPT ![r].batch = <<>>, ![r].pc = "kQuery"]
       \/ /\ runs[r].batch # <<>>
          /\ hist' = Rejected(hist)
          /\ runs' = [runs EXCEPT ![r].batch = <<>>, ![r].pc = "kQuery"]
          /\ db' = RejectBatch(db, runs[r].batch)
    /\ UNCHANGED <<now, env>>

(***************************************************************************)
(* autoResolveQuickPlays.                                                  *)
(***************************************************************************)
quickPlayIsDue(market, t) == HoursOf(t) > market.expiresAt

quickPlaysToResolve(d, t) ==
    LET due == SelectSeq(docs(QuickPlayOrder, d.quickPlays),
                         LAMBDA k : ~d.quickPlays[k].isResolved
                                    /\ quickPlayIsDue(d.quickPlays[k], t))
    IN  [i \in 1..Len(due) |-> Snap(due[i], d.quickPlays[due[i]].retryAttempts)]

\* await quickPlaysRef...get(); when it fails the catch of the job ends the
\* job
QuickPlaysQuery(r) ==
    /\ runs[r].pc = "kQuery"
    /\ \/ LET todo == quickPlaysToResolve(db, now)
          IN  runs' = [runs EXCEPT ![r].todo = todo, ![r].batch = <<>>,
                                   ![r].answer = NoAnswer,
                                   ![r].pc = IF todo = <<>> THEN "done"
                                             ELSE "kVerify"]
       \/ runs' = [runs EXCEPT ![r].todo = <<>>, ![r].batch = <<>>,
                                ![r].answer = NoAnswer, ![r].pc = "done"]
    /\ UNCHANGED <<now, env, db, hist>>

nextQuickPlay(run) ==
    [run EXCEPT !.todo = Tail(@), !.answer = NoAnswer,
                !.pc = IF Tail(run.todo) = <<>> THEN "done" ELSE "kVerify"]

\* await verifyOutcomeWithAI(market.title)
QuickPlayVerify(r) ==
    /\ runs[r].pc = "kVerify"
    /\ LET k == Head(runs[r].todo).id
       IN  \E response \in ServiceResponses :
               LET answer == verifyOutcomeWithAI(response)
               IN  /\ runs' = [runs EXCEPT ![r].answer = answer,
                                           ![r].pc = "kDecide"]
                   /\ hist' = [hist EXCEPT
                           !.evals[k] = @ + 1,
                           !.decisive = IF isDecisive(answer) THEN @ \cup {k} ELSE @]
    /\ UNCHANGED <<now, env, db>>

\* a fallback that resolves the quick-play market as NO
quickPlayUpdateAsNo(market, answer, retryAttempts) ==
    LET d == decision(answer, retryAttempts)
    IN  IF d = "DEFERRED"
        THEN [market EXCEPT !.retryAttempts = @ + 1]
        ELSE [market EXCEPT !.isResolved = TRUE,
                            !.winningOutcome = IF d = "FALLBACK" THEN "NO"
                                               ELSE answer.outcome,
                            !.aiConfidence = answer.confidence]

\* the update one evaluation of a quick-play market sends to the store
quickPlayUpdate(market, answer, retryAttempts) ==
    LET d == decision(answer, retryAttempts)
    IN  IF d = "DEFERRED"
        THEN [market EXCEPT !.retryAttempts = @ + 1]
        ELSE IF d = "FALLBACK"
        THEN [market EXCEPT !.isResolved = TRUE,
                            !.winningOutcome = "UNRESOLVABLE",
                            !.aiConfidence = "LOW"]
        ELSE [market EXCEPT !.isResolved = TRUE,
                            !.winningOutcome = answer.outcome,
                            !.aiConfidence = answer.confidence]

\* await marketDoc.ref.update(...); a rejected update ends the job
QuickPlayDecide(r) ==
    /\ runs[r].pc = "kDecide"
    /\ LET snap == Head(runs[r].todo)
           k == snap.id
           answer == runs[r].answer
       IN  \/ /\ db' = [db EXCEPT !.quickPlays[k] =
                            quickPlayUpdate(@, answer, snap.retryAttempts)]
              /\ runs' = [runs EXCEPT ![r] = nextQuickPlay(@)]
              /\ UNCHANGED hist
           \/ /\ hist' = Rejected(hist)
              /\ runs' = [runs EXCEPT ![r].todo = <<>>, ![r].answer = NoAnswer,
                                      ![r].pc = "done"]
              /\ UNCHANGED db
    /\ UNCHANGED <<now, env>>

\* the response is sent: 200 when every job has returned, 500 when one has
\* thrown
Finish(r) ==
    /\ runs[r].pc \in {"done", "failed"}
    /\ runs' = [runs EXCEPT ![r] = IdleRun]
    /\ UNCHANGED <<now, env, db, hist>>

Step(r) ==
    \/ MarketsQuery(r)
    \/ MarketVerify(r)
    \/ MarketSettle(r)
    \/ MarketCommit(r)
    \/ DailyFlag(r)
    \/ DailyTopic(r)
    \/ DailySet(r)
    \/ Generate(r)
    \/ PollsQuery(r)
    \/ PollVerify(r)
    \/ PollDecide(r)
    \/ PollsCommit(r)
    \/ QuickPlaysQuery(r)
    \/ QuickPlayVerify(r)
    \/ QuickPlayDecide(r)
    \/ Finish(r)

\* dispatcher runs that do not overlap
Next ==
    \/ Tick
    \/ Unauthorized
    \/ \E r \in Runs : StartRunAlone(r)
    \/ \E r \in Runs : Step(r)

Spec == Init /\ [][Next]_vars

\* dispatcher runs that may overlap: the requests the handler accepts
NextOverlap ==
    \/ Tick
    \/ Unauthorized
    \/ \E r \in Runs : StartRun(r, MaxOverlapEvals)
    \/ \E r \in Runs : Step(r)

SpecOverlap == Init /\ [][NextOverlap]_vars

(***************************************************************************)
(* Vocabulary of the properties.                                           *)
(***************************************************************************)
Present == DOMAIN db.markets \cup DOMAIN db.polls \cup DOMAIN db.quickPlays

itemOf(d, i) ==
    IF i \in DOMAIN d.markets THEN d.markets[i]
    ELSE IF i \in DOMAIN d.polls THEN d.polls[i]
    ELSE d.quickPlays[i]

\* the pledges of market i
pledgesOf(d, i) == {p \in DOMAIN d.pledges : d.pledges[p].marketId = i}

\* the stakes placed on item i
stakesOf(d, i) ==
    {<<p, d.pledges[p].userId>> : p \in pledgesOf(d, i)}
        \cup (IF i \in DOMAIN d.polls
              THEN {<<i, u>> : u \in DOMAIN d.polls[i].voters} ELSE {})

\* no run is inside its poll job
PollsQuiet == \A r \in Runs : runs[r].pc \notin {"pVerify", "pDecide", "pCommit"}

AllIdle == \A r \in Runs : runs[r].pc = "idle"

\* the writes of kind k in a batch
opsOf(batch, k) == {batch[i] : i \in {j \in 1..Len(batch) : batch[j].kind = k}}

RECURSIVE SumOver(_, _)
SumOver(f, S) ==
    IF S = {} THEN 0
    ELSE LET x == CHOOSE y \in S : TRUE IN f[x] + SumOver(f, S \ {x})

(***************************************************************************)
(* C1.  Sequential runs settle every item at most once: a resolved item is *)
(* in no run's snapshot, its record, outcome and pledges never change      *)
(* again, nothing more is credited on its account, and once every item of  *)
(* the store is resolved the store never changes.                          *)
(***************************************************************************)
\* the records the resolution jobs write
Resolutions(d) ==
    <<d.markets, d.pledges, d.polls, d.quickPlays, d.profile, d.leaderboard>>

C1_State ==
    /\ \A s \in Stakes : hist.settled[s] <= 1
    /\ \A r \in Runs : \A i \in 1..Len(runs[r].todo) :
          runs[r].todo[i].id \in Items =>
              ~itemOf(db, runs[r].todo[i].id).isResolved

C1_Step ==
    /\ \A i \in Present :
          itemOf(db, i).isResolved =>
              /\ itemOf(db', i) = itemOf(db, i)
              /\ \A p \in pledgesOf(db, i) : db'.pledges[p] = db.pledges[p]
              /\ \A s \in stakesOf(db, i) :
                    /\ hist'.settled[s] = hist.settled[s]
                    /\ hist'.credited[s] = hist.credited[s]
    /\ (\A i \in Present : itemOf(db, i).isResolved) =>
          Resolutions(db') = Resolutions(db)

\* C1: under sequential runs every state and every step keeps a resolved item
\* settled once and untouched
C1_Idempotent == [](C1_State) /\ [][C1_Step]_vars

\* a later run has selected the second market after the first was settled
C1_Witness ==
    /\ "m1" \in DOMAIN db.markets
    /\ db.markets["m1"].isResolved
    /\ hist.settled[<<"p1", "u1">>] = 1
    /\ runs["r1"].pc = "mVerify"
    /\ Head(runs["r1"].todo).id = "m2"

(***************************************************************************)
(* C2.  After overlapping runs, every stake has been credited to its       *)
(* participant's balance record at most once.                              *)
(***************************************************************************)
C2_CreditedOnce == \A s \in Stakes : hist.settled[s] <= 1

(***************************************************************************)
(* C3.  In every state of the store a market is resolved exactly when each *)
(* of its pledges is resolved, with isWinner and payout agreeing with the  *)
(* market's outcome and the pledge credited once; the profile and          *)
(* leaderboard points are those of the resolved pledges, no more, no less. *)
(***************************************************************************)
xpOfPledges(d, u) ==
    LET mine == {p \in DOMAIN d.pledges :
                    d.pledges[p].userId = u /\ d.pledges[p].isResolved}
        xp == [p \in mine |-> xpChange(d.pledges[p].isWinner, d.pledges[p].amountUsd)]
    IN  SumOver(xp, mine)

C3_AtomicSettlement ==
    /\ \A p \in DOMAIN db.pledges :
          LET pledge == db.pledges[p]
              market == db.markets[pledge.marketId]
              s == <<p, pledge.userId>>
          IN  /\ market.isResolved <=> pledge.isResolved
              /\ pledge.isResolved =>
                    /\ pledge.isWinner <=> (pledge.pick = market.winningOutcome)
                    /\ ~pledge.isWinner =>
                          pledge.payout = IF market.isNoLoss
                                          THEN <<pledge.amountUsd, 1>> ELSE Zero
                    /\ pledge.isWinner => RatLeq(<<pledge.amountUsd, 1>>, pledge.payout)
                    /\ hist.settled[s] = 1
              /\ ~pledge.isResolved =>
                    /\ pledge.payout = Zero
                    /\ hist.settled[s] = 0
    /\ DOMAIN db.pledges # {} =>
          \A u \in Users :
              /\ db.profile[u].xp = xpOfPledges(db, u)
              /\ db.leaderboard[u].xp = xpOfPledges(db, u)

\* a settled market with a winning and a losing pledge
C3_Witness ==
    /\ "m1" \in DOMAIN db.markets
    /\ db.markets["m1"].isResolved
    /\ db.pledges["p1"].isResolved /\ db.pledges["p1"].isWinner
    /\ db.pledges["p2"].isResolved /\ ~db.pledges["p2"].isWinner
    /\ ~db.markets["m2"].isResolved

(***************************************************************************)
(* C4.  A poll with votes whose verifier answered UNKNOWN or LOW at every  *)
(* evaluation, no write of a run having been rejected, is unresolved with  *)
(* retryAttempts equal to its number of evaluations through the first 5,   *)
(* and is resolved by the 6th, with the outcome of the vote count.         *)
(***************************************************************************)
C4_RetryBound ==
    \A q \in DOMAIN db.polls :
        LET poll == db.polls[q]
        IN  (poll.yesVotes + poll.noVotes > 0 /\ q \notin hist.decisive
                /\ ~hist.rejected) =>
                /\ hist.evals[q] <= MaxRetryAttempts + 1
                /\ poll.isResolved =>
                      /\ hist.evals[q] = MaxRetryAttempts + 1
                      /\ poll.retryAttempts = MaxRetryAttempts
                      /\ poll.winningOutcome \in {"YES", "NO", "TIE"}
                /\ (PollsQuiet /\ ~poll.isResolved) =>
                      /\ hist.evals[q] <= MaxRetryAttempts
                      /\ poll.retryAttempts = hist.evals[q]
                /\ (PollsQuiet /\ hist.evals[q] = MaxRetryAttempts + 1) =>
                      poll.isResolved

\* the sixth evaluation of an always-uncertain poll has resolved it
C4_Witness ==
    /\ "q1" \in DOMAIN db.polls
    /\ db.polls["q1"].isResolved
    /\ "q1" \notin hist.decisive
    /\ ~hist.rejected
    /\ hist.evals["q1"] = 6

(***************************************************************************)
(* C5.  Every item that has been evaluated 6 times, no write having been   *)
(* rejected, is resolved once the runs have finished.                      *)
(***************************************************************************)
C5_BoundedTermination ==
    \A i \in Present :
        (AllIdle /\ ~hist.rejected /\ hist.evals[i] >= MaxRetryAttempts + 1) =>
            itemOf(db, i).isResolved

(***************************************************************************)
(* C6.  Under sequential runs the retryAttempts of every poll and quick-   *)
(* play market stays in 0..5, and whenever it changes it grows by exactly  *)
(* 1 on an item that is, and stays, unresolved.                            *)
(***************************************************************************)
Retried == DOMAIN db.polls \cup DOMAIN db.quickPlays

C6_Range == \A i \in Retried : itemOf(db, i).retryAttempts \in 0..MaxRetryAttempts

C6_Step ==
    \A i \in Retried :
        itemOf(db', i).retryAttempts # itemOf(db, i).retryAttempts =>
            /\ itemOf(db', i).retryAttempts = itemOf(db, i).retryAttempts + 1
            /\ ~itemOf(db, i).isResolved
            /\ itemOf(db', i) = [itemOf(db, i) EXCEPT !.retryAttempts = @ + 1]

\* C6: retryAttempts is always in 0..5 and every change of it is a +1 on an
\* unresolved item
C6_RetryRange == [](C6_Range) /\ [][C6_Step]_vars

\* a poll and a quick-play market that have used all five deferrals
C6_Witness ==
    \E i \in Retried :
        /\ itemOf(db, i).retryAttempts = MaxRetryAttempts
        /\ ~itemOf(db, i).isResolved
        /\ hist.evals[i] = MaxRetryAttempts

(***************************************************************************)
(* Steps of a run, as the properties below name them.                      *)
(***************************************************************************)
\* run r takes the step it is at when its position is pc
Takes(r, pc) == runs[r].pc = pc /\ runs'[r] # runs[r]

\* run r decides the poll at the head of its loop
DecidesPoll(r) == Takes(r, "pDecide")

\* run r decides, and writes, the quick-play market at the head of its loop
DecidesQuickPlay(r) == Takes(r, "kDecide")

\* run r leaves its poll job, its batch committed or rejected
LeavesPolls(r) == Takes(r, "pCommit")

\* the writes run r has staged for the poll it decides in this step
stagedNow(r) == SubSeq(runs'[r].batch, Len(runs[r].batch) + 1, Len(runs'[r].batch))

\* the step in which the poll job of run r ends on an exception
PollJobThrows(r) ==
    /\ Takes(r, "pVerify")
    /\ toDateThrows(db.polls[Head(runs[r].todo).id])

\* between its query and its commit the poll job only adds to its batch,
\* unless an exception ends it, and then nothing is written
BatchGrows(r) ==
    (runs[r].pc \in {"pVerify", "pDecide"}) =>
        \/ /\ runs'[r].pc \in {"pVerify", "pDecide", "pCommit"}
           /\ Len(runs'[r].batch) >= Len(runs[r].batch)
           /\ SubSeq(runs'[r].batch, 1, Len(runs[r].batch)) = runs[r].batch
        \/ /\ PollJobThrows(r)
           /\ runs'[r].pc = "kQuery"
           /\ db' = db

\* the step in which run r leaves its poll job with its batch committed
CommitsPolls(r) == LeavesPolls(r) /\ db' # db

\* every poll resolution run r has staged under decision via is in the store
\* after the step
ResolutionsApplied(r, via) ==
    \A op \in opsOf(runs[r].batch, "poll") :
        op.via = via =>
            /\ db'.polls[op.id].isResolved
            /\ db'.polls[op.id].winningOutcome = op.outcome

(***************************************************************************)
(* C7.  A YES or NO of HIGH or MEDIUM confidence is accepted whatever      *)
(* retryAttempts and the votes are: the run resolves the item with that    *)
(* outcome in the same run.                                                *)
(***************************************************************************)
C7_Accepts(r) ==
    /\ (DecidesPoll(r) /\ isSure(runs[r].answer)) =>
          /\ stagedNow(r) # <<>>
          /\ Head(stagedNow(r)).kind = "poll"
          /\ Head(stagedNow(r)).id = Head(runs[r].todo).id
          /\ Head(stagedNow(r)).outcome = runs[r].answer.outcome
          /\ Head(stagedNow(r)).via = "ACCEPTED"
    /\ BatchGrows(r)

isIndecisive(answer) == answer.outcome = "UNKNOWN" \/ answer.confidence = "LOW"

C8_Defers(r) ==
    /\ (DecidesPoll(r) /\ isIndecisive(runs[r].answer)
            /\ Head(runs[r].todo).retryAttempts < MaxRetryAttempts) =>
          /\ stagedNow(r) = <<RetryOp(Head(runs[r].todo).id)>>
          /\ db' = db
    /\ BatchGrows(r)
    /\ LeavesPolls(r) =>
          /\ \A op \in opsOf(runs[r].batch, "retry") :
                /\ db'.polls[op.id] =
                      IF db' = db THEN db.polls[op.id]
                      ELSE [db.polls[op.id] EXCEPT !.retryAttempts = @ + 1]
                /\ ~db'.polls[op.id].isResolved
                /\ db'.polls[op.id].winningOutcome = NoOutcome
                /\ \A s \in stakesOf(db, op.id) :
                      /\ hist'.settled[s] = hist.settled[s]
                      /\ hist'.credited[s] = hist.credited[s]
          /\ (\A i \in 1..Len(runs[r].batch) : runs[r].batch[i].kind = "retry") =>
                /\ db'.profile = db.profile
                /\ db'.leaderboard = db.leaderboard
    /\ (DecidesQuickPlay(r) /\ isIndecisive(runs[r].answer)
            /\ Head(runs[r].todo).retryAttempts < MaxRetryAttempts) =>
          LET k == Head(runs[r].todo).id
          IN  \/ db' = [db EXCEPT !.quickPlays[k].retryAttempts = @ + 1]
              \/ db' = db /\ hist'.rejected

\* C8: every step of a deferral changes, for the deferred item, nothing but its
\* retryAttempts, by +1
C8_DeferralFrame == [][\A r \in Runs : C8_Defers(r)]_vars

\* three committed deferrals of a poll with voters, nothing credited
C8_Witness ==
    /\ "q1" \in DOMAIN db.polls
    /\ db.polls["q1"].retryAttempts = 3
    /\ ~db.polls["q1"].isResolved
    /\ db.profile = InitProfile
    /\ AllIdle

(***************************************************************************)
(* C9.  An UNKNOWN or LOW answer with retryAttempts >= 5 resolves the poll *)
(* in that run by the vote count: YES or NO for the side with more votes,  *)
(* TIE for equal counts, whatever outcome the verifier returned.           *)
(***************************************************************************)
C9_FallsBack(r) ==
    /\ (DecidesPoll(r) /\ isIndecisive(runs[r].answer)
            /\ Head(runs[r].todo).retryAttempts >= MaxRetryAttempts) =>
          LET q == Head(runs[r].todo).id
              yes == db.polls[q].yesVotes
              no == db.polls[q].noVotes
          IN  /\ stagedNow(r) # <<>>
              /\ Head(stagedNow(r)).kind = "poll"
              /\ Head(stagedNow(r)).id = q
              /\ Head(stagedNow(r)).via = "FALLBACK"
              /\ yes > no => Head(stagedNow(r)).outcome = "YES"
              /\ yes < no => Head(stagedNow(r)).outcome = "NO"
              /\ yes = no => Head(stagedNow(r)).outcome = "TIE"
    /\ BatchGrows(r)

C10_PointsConserved ==
    \A q \in DOMAIN db.polls :
        LET poll == db.polls[q]
            P == poll.xpStakedYES + poll.xpStakedNO
            voters == DOMAIN poll.voters
            paid == SumOver([u \in voters |-> hist.credited[<<q, u>>]], voters)
            winners == Cardinality({u \in voters :
                                      poll.voters[u].vote = poll.winningOutcome})
        IN  poll.isResolved => (paid <= P /\ paid >= P - winners)

(***************************************************************************)
(* C11.  The payouts recorded on the pledges of a resolved binary market   *)
(* (winnings and returned principal) sum to at most the market's pool, the *)
(* sum of its two side pools.                                              *)
(***************************************************************************)
RECURSIVE payoutsOf(_, _)
payoutsOf(d, ps) ==
    IF ps = {} THEN Zero
    ELSE LET p == CHOOSE x \in ps : TRUE
         IN  RatAdd(d.pledges[p].payout, payoutsOf(d, ps \ {p}))

totalPool(market) == market.yesPool + market.noPool

C11_PoolConserved ==
    \A m \in DOMAIN db.markets :
        (db.markets[m].isResolved /\ ~isMultiOption(db.markets[m])) =>
            RatLeq(payoutsOf(db, pledgesOf(db, m)), <<totalPool(db.markets[m]), 1>>)

(***************************************************************************)
(* C12.  Once a principal-protected market is settled, every pledge on it  *)
(* has been credited exactly once: its recorded payout is at least its     *)
(* stake, exactly its stake when it lost, and the balances hold that       *)
(* payout, converted at the asset's price, once and nothing more.          *)
(***************************************************************************)
\* what the resolved pledges ps have put on the balance field of their users
RECURSIVE balanceOfPledges(_, _, _)
balanceOfPledges(d, field, ps) ==
    IF ps = {} THEN Zero
    ELSE LET p == CHOOSE x \in ps : TRUE
             pledge == d.pledges[p]
         IN  RatAdd(IF pledge.isResolved /\ getBalanceField(pledge.asset) = field
                    THEN RatDiv(pledge.payout, getMockPrice(pledge.asset))
                    ELSE Zero,
                    balanceOfPledges(d, field, ps \ {p}))

C12_PrincipalProtected ==
    /\ \A p \in DOMAIN db.pledges :
          LET pledge == db.pledges[p]
              market == db.markets[pledge.marketId]
          IN  (market.isNoLoss /\ market.isResolved) =>
                  /\ pledge.isResolved
                  /\ hist.settled[<<p, pledge.userId>>] = 1
                  /\ RatLeq(<<pledge.amountUsd, 1>>, pledge.payout)
                  /\ ~pledge.isWinner => pledge.payout = <<pledge.amountUsd, 1>>
    /\ DOMAIN db.pledges # {} =>
          \A u \in Users : \A field \in {"balance", "bnbBalance", "cakeBalance"} :
              db.profile[u][field] =
                  balanceOfPledges(db, field,
                      {p \in DOMAIN db.pledges : db.pledges[p].userId = u})

(***************************************************************************)
(* C13.  On a binary market resolved to side S (its recorded percentage    *)
(* not 0), a pledge that picked S has payout stake * 100 / percentage of   *)
(* S, and any other pledge has payout 0, or exactly its stake when the     *)
(* market is principal-protected.                                          *)
(***************************************************************************)
recordedPercent(market, side) ==
    IF side = "YES" THEN market.yesPercent ELSE market.noPercent

C13_BinaryPayout ==
    \A p \in DOMAIN db.pledges :
        LET pledge == db.pledges[p]
            market == db.markets[pledge.marketId]
            S == market.winningOutcome
        IN  (market.marketStructure = "binary" /\ market.isResolved
                /\ recordedPercent(market, S) # 0) =>
                /\ S \in {"YES", "NO"}
                /\ pledge.isResolved
                /\ pledge.isWinner <=> (pledge.pick = S)
                /\ pledge.payout =
                      IF pledge.pick = S
                      THEN Rat(pledge.amountUsd * 100, recordedPercent(market, S))
                      ELSE IF market.isNoLoss THEN <<pledge.amountUsd, 1>> ELSE Zero

\* a stake of 100 on YES at 40% is paid 250 and the losing stake nothing
C13_Witness ==
    /\ "m1" \in DOMAIN db.markets
    /\ db.markets["m1"].isResolved
    /\ db.markets["m1"].winningOutcome = "YES"
    /\ ~db.markets["m1"].isNoLoss
    /\ db.pledges["p1"].payout = <<250, 1>>
    /\ db.pledges["p2"].payout = Zero

(***************************************************************************)
(* C14.  On a multi-option market resolved to option W, exactly the        *)
(* pledges that picked W are winners, with payout stake * 100 / odds of W; *)
(* every other pledge has payout 0, or exactly its stake when the market   *)
(* is principal-protected.                                                 *)
(***************************************************************************)
recordedOdds(market, W) ==
    LET i == CHOOSE j \in 1..Len(market.options) : market.options[j].id = W
    IN  market.options[i].odds

C14_MultiOptionPayout ==
    \A p \in DOMAIN db.pledges :
        LET pledge == db.pledges[p]
            market == db.markets[pledge.marketId]
            W == market.winningOutcome
        IN  (market.marketStructure = "multi-option" /\ market.isResolved) =>
                /\ W \in optionIds(market)
                /\ pledge.isResolved
                /\ pledge.isWinner <=> (pledge.pick = W)
                /\ pledge.payout =
                      IF pledge.pick = W
                      THEN Rat(pledge.amountUsd * 100, recordedOdds(market, W))
                      ELSE IF market.isNoLoss THEN <<pledge.amountUsd, 1>> ELSE Zero

\* a principal-protected market resolved to opt_1 (odds 50) by a quoted answer:
\* the stake of 1000 on opt_1 is paid 2000, the stake of 50 on opt_0 is returned
C14_Witness ==
    /\ "m2" \in DOMAIN db.markets
    /\ db.markets["m2"].isResolved
    /\ db.markets["m2"].winningOutcome = "opt_1"
    /\ db.markets["m2"].isNoLoss
    /\ db.pledges["p3"].isWinner /\ db.pledges["p3"].payout = <<2000, 1>>
    /\ ~db.pledges["p4"].isWinner /\ db.pledges["p4"].payout = <<50, 1>>

(***************************************************************************)
(* C15.  When a poll resolves to YES or NO, every voter of the winning     *)
(* side is credited floor(stake + stake * loserSideTotal /                 *)
(* winnerSideTotal) points, by one write to the profile and one to the     *)
(* leaderboard entry.                                                      *)
(***************************************************************************)
\* floor(stake + stake * loserTotal / winnerTotal), in exact arithmetic
exactShare(stake, winnerTotal, loserTotal) ==
    stake + ((stake * loserTotal) \div winnerTotal)

shareOf(poll, u, w) ==
    exactShare(poll.voters[u].xpStaked,
               IF w = "YES" THEN poll.xpStakedYES ELSE poll.xpStakedNO,
               IF w = "YES" THEN poll.xpStakedNO ELSE poll.xpStakedYES)

C15_WinnerPayout ==
    \A q \in DOMAIN db.polls : \A u \in DOMAIN db.polls[q].voters :
        LET poll == db.polls[q]
        IN  /\ (poll.isResolved /\ poll.winningOutcome \in {"YES", "NO"}
                    /\ poll.voters[u].vote = poll.winningOutcome) =>
                  hist.credited[<<q, u>>] = shareOf(poll, u, poll.winningOutcome)
            /\ \A r \in Runs : \A res \in opsOf(runs[r].batch, "poll") :
                  (res.id = q /\ res.outcome \in {"YES", "NO"}
                      /\ poll.voters[u].vote = res.outcome) =>
                      \A kind \in {"profile", "leaderboard"} :
                          {op.xp : op \in {o \in opsOf(runs[r].batch, kind) :
                                                o.src = <<q, u>>}}
                              = {shareOf(poll, u, res.outcome)}

(***************************************************************************)
(* C16.  When a poll resolves to YES or NO, its settlement writes, for     *)
(* every losing voter, the streak 0 and no points, and for every winning   *)
(* voter a streak increment of 1: the commit leaves a loser's points and   *)
(* balances as they were with streak 0, and a winner's streak one higher.  *)
(***************************************************************************)
\* the poll resolutions of a batch that have u among their voters
resolutionsWith(batch, u) ==
    {res \in opsOf(batch, "poll") : u \in DOMAIN db.polls[res.id].voters}

\* the profile writes of a batch on account of u's vote in poll q
profileWrites(batch, q, u) == {o \in opsOf(batch, "profile") : o.src = <<q, u>>}

C16_Staged ==
    \A r \in Runs : \A u \in Users :
        \A res \in resolutionsWith(runs[r].batch, u) :
            res.outcome \in {"YES", "NO"} =>
                /\ profileWrites(runs[r].batch, res.id, u) # {}
                /\ \A o \in profileWrites(runs[r].batch, res.id, u) :
                      IF db.polls[res.id].voters[u].vote = res.outcome
                      THEN o.streak = "inc"
                      ELSE o.streak = "zero" /\ o.xp = 0 /\ o.amount = Zero

C16_Step ==
    \A r \in Runs : \A u \in Users :
        (CommitsPolls(r) /\ Cardinality(resolutionsWith(runs[r].batch, u)) = 1) =>
            LET res == CHOOSE x \in resolutionsWith(runs[r].batch, u) : TRUE
            IN  res.outcome \in {"YES", "NO"} =>
                    IF db.polls[res.id].voters[u].vote = res.outcome
                    THEN db'.profile[u].streak = db.profile[u].streak + 1
                    ELSE /\ db'.profile[u].streak = 0
                         /\ db'.profile[u] = [db.profile[u] EXCEPT !.streak = 0]

\* C16: the writes staged for a YES/NO resolution and the step that commits them
C16_LosersAndStreaks == [](C16_Staged) /\ [][C16_Step]_vars

\* the skewed poll resolved NO: both YES voters lost their streak and gained
\* nothing, the NO voter's streak went from 1 to 2
C16_Witness ==
    /\ "q2" \in DOMAIN db.polls
    /\ db.polls["q2"].isResolved /\ db.polls["q2"].winningOutcome = "NO"
    /\ ~db.polls["q1"].isResolved
    /\ db.polls["q2"].xpStakedNO = 78
    /\ db.profile["u1"].streak = 0 /\ db.profile["u1"].xp = 0
    /\ db.profile["u2"].streak = 0 /\ db.profile["u2"].xp = 0
    /\ db.profile["u3"].streak = 2

(***************************************************************************)
(* C17.  A poll resolved to TIE credits every voter exactly the voter's    *)
(* own stake, on the profile and on the leaderboard entry, with no winner  *)
(* and no change of any streak.                                            *)
(***************************************************************************)
leaderboardWrites(batch, q, u) ==
    {o \in opsOf(batch, "leaderboard") : o.src = <<q, u>>}

C17_Staged ==
    \A r \in Runs : \A u \in Users :
        \A res \in resolutionsWith(runs[r].batch, u) :
            res.outcome = "TIE" =>
                LET stake == db.polls[res.id].voters[u].xpStaked
                    writes == profileWrites(runs[r].batch, res.id, u)
                                \cup leaderboardWrites(runs[r].batch, res.id, u)
                IN  /\ profileWrites(runs[r].batch, res.id, u) # {}
                    /\ leaderboardWrites(runs[r].batch, res.id, u) # {}
                    /\ \A o \in writes :
                          o.xp = stake /\ o.streak = "keep" /\ o.amount = Zero

C17_Step ==
    \A r \in Runs : \A u \in Users :
        (CommitsPolls(r) /\ Cardinality(resolutionsWith(runs[r].batch, u)) = 1) =>
            LET res == CHOOSE x \in resolutionsWith(runs[r].batch, u) : TRUE
                stake == db.polls[res.id].voters[u].xpStaked
            IN  res.outcome = "TIE" =>
                    /\ db'.polls[res.id].winningOutcome = "TIE"
                    /\ db'.profile[u] = [db.profile[u] EXCEPT !.xp = @ + stake]
                    /\ db'.leaderboard[u] = [db.leaderboard[u] EXCEPT !.xp = @ + stake]

\* C17: the writes staged for a TIE resolution and the step that commits them
C17_TieReturnsStakes == [](C17_Staged) /\ [][C17_Step]_vars

\* the poll with one vote of 30 against one of 50 resolved TIE: each voter has
\* been credited the own stake, once
C17_Witness ==
    /\ "q2" \in DOMAIN db.polls
    /\ db.polls["q2"].isResolved /\ db.polls["q2"].winningOutcome = "TIE"
    /\ db.polls["q2"].xpStakedYES = 30 /\ db.polls["q2"].xpStakedNO = 50
    /\ hist.credited[<<"q2", "u1">>] = 30 /\ hist.settled[<<"q2", "u1">>] = 1
    /\ hist.credited[<<"q2", "u2">>] = 50 /\ hist.settled[<<"q2", "u2">>] = 1
    /\ AllIdle

(***************************************************************************)
(* C18.  A due poll without votes is staged as resolved NO_VOTES at its    *)
(* first evaluation without a request to the verifier; the resolution      *)
(* changes the poll's isResolved and winningOutcome only, not its          *)
(* retryAttempts and no profile or leaderboard record.                     *)
(***************************************************************************)
hasNoVotes(poll) == poll.yesVotes + poll.noVotes = 0

C18_Stages(r) ==
    /\ (Takes(r, "pVerify") /\ hasNoVotes(db.polls[Head(runs[r].todo).id])) =>
          /\ stagedNow(r) = <<PollNoVotesOp(Head(runs[r].todo).id)>>
          /\ runs'[r].answer = NoAnswer
          /\ runs'[r].pc # "pDecide"
          /\ db' = db
    /\ BatchGrows(r)

\* the NO_VOTES resolutions run r has staged are in the store after the step,
\* and they are all that changed if the batch holds nothing else
NoVotesApplied(r) ==
    /\ \A op \in opsOf(runs[r].batch, "pollNoVotes") :
          db'.polls[op.id] = [db.polls[op.id] EXCEPT !.isResolved = TRUE,
                                                     !.winningOutcome = "NO_VOTES"]
    /\ (\A i \in 1..Len(runs[r].batch) :
              runs[r].batch[i].kind \in {"pollNoVotes", "retry"}) =>
          /\ db'.profile = db.profile
          /\ db'.leaderboard = db.leaderboard

\* a poll without votes is not evaluated twice and is resolved once the run of
\* its first evaluation has left the poll job
FirstEvaluationResolves(q) ==
    /\ hist.evals[q] <= 1
    /\ (hist.evals[q] = 1 /\ PollsQuiet) =>
          /\ db.polls[q].isResolved
          /\ db.polls[q].winningOutcome = "NO_VOTES"
          /\ db.polls[q].retryAttempts = 0

C18_FirstAlways ==
    \A q \in DOMAIN db.polls : hasNoVotes(db.polls[q]) => FirstEvaluationResolves(q)

C18_FirstWhenAccepted ==
    \A q \in DOMAIN db.polls :
        (hasNoVotes(db.polls[q]) /\ ~hist.rejected) => FirstEvaluationResolves(q)

C19_LockstepStreak ==
    \A u \in Users : db.leaderboard[u].streak = db.profile[u].streak

(***************************************************************************)
(* C20.  The xp of every participant's leaderboard entry equals the xp of  *)
(* the participant's profile record (they are equal before the first       *)
(* settlement): every batch carries, for each xp increment of a profile,   *)
(* the same increment of the leaderboard entry on the same account, and    *)
(* every step changes the two by the same amount.                          *)
(***************************************************************************)
C20_State ==
    /\ \A u \in Users : db.leaderboard[u].xp = db.profile[u].xp
    /\ \A r \in Runs : \A s \in Stakes :
          {o.xp : o \in {x \in opsOf(runs[r].batch, "profile") : x.src = s}}
              = {o.xp : o \in {x \in opsOf(runs[r].batch, "leaderboard") : x.src = s}}

C20_Step ==
    \A u \in Users :
        db'.leaderboard[u].xp - db.leaderboard[u].xp
            = db'.profile[u].xp - db.profile[u].xp

\* C20: the two copies of the points agree in every state and move together
C20_LockstepPoints == [](C20_State) /\ [][C20_Step]_vars

\* a settled market: the winner of 100 has 30 points and the loser -10, on both
\* records
C20_Witness ==
    /\ "m1" \in DOMAIN db.markets
    /\ db.markets["m1"].isResolved
    /\ db.pledges["p1"].isWinner
    /\ db.profile["u1"].xp = 30 /\ db.leaderboard["u1"].xp = 30
    /\ db.profile["u2"].xp = -10 /\ db.leaderboard["u2"].xp = -10

(***************************************************************************)
(* C21.  When the verifier's answer for a due multi-option market is       *)
(* AMBIGUOUS, the run marks the market resolved with winningOutcome        *)
(* AMBIGUOUS and changes no pledge, profile or leaderboard record.         *)
(***************************************************************************)
\* run r is at the resolution check of a multi-option market
ChecksMultiOption(r) ==
    /\ Takes(r, "mSettle")
    /\ isMultiOption(db.markets[Head(runs[r].todo).id])

C21_AmbiguousResolves ==
    [][\A r \in Runs :
          (ChecksMultiOption(r) /\ runs[r].text = "AMBIGUOUS") =>
              LET m == Head(runs[r].todo).id
              IN  /\ db'.markets[m] = [db.markets[m] EXCEPT
                                           !.isResolved = TRUE,
                                           !.winningOutcome = "AMBIGUOUS"]
                  /\ db'.pledges = db.pledges
                  /\ db'.profile = db.profile
                  /\ db'.leaderboard = db.leaderboard]_vars

(***************************************************************************)
(* C22.  Every resolved poll has winningOutcome in {YES, NO, TIE,          *)
(* NO_VOTES}: an outcome of the verifier other than YES, NO and UNKNOWN is *)
(* never written as the winning outcome.                                   *)
(***************************************************************************)
PollOutcomes == {"YES", "NO", "TIE", "NO_VOTES"}

C22_OutcomeVocabulary ==
    \A q \in DOMAIN db.polls :
        db.polls[q].isResolved => db.polls[q].winningOutcome \in PollOutcomes


(***************************************************************************)
(* C23.  Per-item failure isolation: when the processing of one due item   *)
(* raises an exception, the other due items of the run that have a         *)
(* decisive verifier result are still settled in that run.  For a market   *)
(* the loop goes on to the next market; for the polls the resolutions the  *)
(* run has staged on accepted answers are in the store when the failing    *)
(* poll has been processed.                                                *)
(***************************************************************************)
MarketThrows(r) ==
    /\ Takes(r, "mVerify")
    /\ runs'[r].pc # "mSettle"

C23_FailureIsolation ==
    [][\A r \in Runs :
          /\ MarketThrows(r) =>
                /\ runs'[r].todo = Tail(runs[r].todo)
                /\ db' = db
          /\ PollJobThrows(r) => ResolutionsApplied(r, "ACCEPTED")]_vars

(***************************************************************************)
(* C24.  Independent transactions: every commit carries the settlement (or *)
(* the retry increment) of one item only, so a commit the store rejects    *)
(* loses the writes of at most one item, for polls as for markets.         *)
(***************************************************************************)
\* the items whose resolution or retry counter a batch writes
settlementsIn(batch) ==
    {batch[i].id : i \in {j \in 1..Len(batch) :
        batch[j].kind \in {"market", "poll", "pollNoVotes", "retry"}}}

\* the step in which the store rejects the batch of run r
CommitRejected(r) ==
    /\ Takes(r, "mCommit") \/ Takes(r, "pCommit")
    /\ runs[r].batch # <<>>
    /\ db' = db

C24_IndependentTransactions ==
    [][\A r \in Runs :
          CommitRejected(r) =>
              \A i, j \in settlementsIn(runs[r].batch) : i = j]_vars

(***************************************************************************)
(* C25.  A failed commit leaves the item untouched: after a commit step    *)
(* that did not apply its batch, every item the batch was settling is      *)
(* still unresolved with its record unchanged, its pledges and its         *)
(* participants' profile and leaderboard records are unchanged, and the    *)
(* query of the next run selects the item again.                           *)
(***************************************************************************)
CommitFails(r) ==
    /\ Takes(r, "mCommit") \/ Takes(r, "pCommit")
    /\ runs[r].batch # <<>>
    /\ db' # ApplyBatch(db, runs[r].batch)

\* the items the queries of a run starting in store d at time t select
selectedBy(d, t) ==
    LET ms == marketsToResolve(d, DateOf(t))
        ps == pollsToResolve(d, t)
    IN  {ms[k].id : k \in 1..Len(ms)} \cup {ps[k].id : k \in 1..Len(ps)}

C25_FailedCommitUntouched ==
    [][\A r \in Runs :
          CommitFails(r) =>
              \A i \in settlementsIn(runs[r].batch) :
                  /\ itemOf(db', i) = itemOf(db, i)
                  /\ ~itemOf(db', i).isResolved
                  /\ \A p \in pledgesOf(db, i) : db'.pledges[p] = db.pledges[p]
                  /\ \A st \in stakesOf(db, i) :
                        /\ db'.profile[st[2]] = db.profile[st[2]]
                        /\ db'.leaderboard[st[2]] = db.leaderboard[st[2]]
                  /\ i \in selectedBy(db', now')]_vars

\* the commit of market m1 was rejected, and a later run has m1 at the head of
\* its loop again
C25_Witness ==
    /\ hist.rejected
    /\ "m1" \in DOMAIN db.markets
    /\ ~db.markets["m1"].isResolved
    /\ hist.evals["m1"] >= 2
    /\ hist.evals["m2"] = 0
    /\ \E r \in Runs : /\ runs[r].pc = "mSettle"
                        /\ Head(runs[r].todo).id = "m1"

(***************************************************************************)
(* C26.  Verifier degradation: when the service fails or its response does *)
(* not parse, verifyOutcomeWithAI answers UNKNOWN with LOW confidence, and *)
(* the poll or quick-play market evaluated on that answer is deferred      *)
(* while retryAttempts < 5 and resolved by the fallback path from 5 on; it *)
(* is never resolved with an outcome the verifier chose.                   *)
(***************************************************************************)
\* the answer run r holds is the one verifyOutcomeWithAI makes in its catch
Degraded(r) == runs[r].answer.reasoning = "AI verification error"

C26_Poll(r) ==
    (DecidesPoll(r) /\ Degraded(r)) =>
        LET snap == Head(runs[r].todo)
            poll == db.polls[snap.id]
        IN  /\ runs[r].answer.outcome = "UNKNOWN"
            /\ runs[r].answer.confidence = "LOW"
            /\ db' = db
            /\ \A i \in 1..Len(stagedNow(r)) : stagedNow(r)[i].via # "ACCEPTED"
            /\ IF snap.retryAttempts < MaxRetryAttempts
               THEN stagedNow(r) = <<RetryOp(snap.id)>>
               ELSE /\ stagedNow(r) # <<>>
                    /\ Head(stagedNow(r)).kind = "poll"
                    /\ Head(stagedNow(r)).id = snap.id
                    /\ Head(stagedNow(r)).via = "FALLBACK"
                    /\ Head(stagedNow(r)).outcome =
                          majorityVote(poll.yesVotes, poll.noVotes)

C26_QuickPlay(r) ==
    (DecidesQuickPlay(r) /\ Degraded(r)) =>
        LET snap == Head(runs[r].todo)
            k == snap.id
        IN  /\ runs[r].answer.outcome = "UNKNOWN"
            /\ runs[r].answer.confidence = "LOW"
            /\ \/ db' = db
               \/ /\ snap.retryAttempts < MaxRetryAttempts
                  /\ db' = [db EXCEPT !.quickPlays[k].retryAttempts = @ + 1]
               \/ /\ snap.retryAttempts >= MaxRetryAttempts
                  /\ db' = [db EXCEPT !.quickPlays[k].isResolved = TRUE,
                                      !.quickPlays[k].winningOutcome = "UNRESOLVABLE",
                                      !.quickPlays[k].aiConfidence = "LOW"]

C26_VerifierDegradation ==
    [][\A r \in Runs : C26_Poll(r) /\ C26_QuickPlay(r)]_vars

\* an outage at the sixth evaluation of a poll: the run holds the answer of
\* the catch for a poll it has read with retryAttempts = 5
C26_Witness ==
    \E r \in Runs :
        /\ runs[r].pc = "pDecide"
        /\ Degraded(r)
        /\ runs[r].answer.outcome = "UNKNOWN"
        /\ Head(runs[r].todo).retryAttempts = MaxRetryAttempts
        /\ db.polls[Head(runs[r].todo).id].yesVotes > 0

(***************************************************************************)
(* C27.  Trigger authentication: a request whose key differs from the      *)
(* configured secret, and every request while no secret is configured, is  *)
(* answered unauthorized and starts no job: the store and the runs are as  *)
(* they were.  Every run in progress was started with the configured       *)
(* secret as its key, and while no secret is configured nothing changes    *)
(* but the clock and the record of refused requests.                       *)
(***************************************************************************)
Refused == hist'.denied /\ ~hist.denied

C27_TriggerAuthentication ==
    [][/\ Refused => (db' = db /\ runs' = runs)
       /\ \A r \in Runs :
             runs'[r].pc # "idle" =>
                 /\ env.CRON_SECRET # NoSecret
                 /\ runs'[r].key = env.CRON_SECRET
       /\ (env.CRON_SECRET = NoSecret \/ env.key # env.CRON_SECRET) =>
             (db' = db /\ runs' = runs)]_vars

\* a request with a wrong key has been refused while a secret is configured
\* and the store holds polls that are due
C27_Witness ==
    /\ hist.denied
    /\ env.CRON_SECRET # NoSecret
    /\ env.key = "guess"
    /\ now = 1
    /\ AllIdle
    /\ \A i \in Items : hist.evals[i] = 0
    /\ DOMAIN db.polls # {}

isInvalidOption(market, text) ==
    /\ stripQuotes(text) \notin optionIds(market)
    /\ toUpperCase(stripQuotes(text)) # "AMBIGUOUS"

C29_InvalidOptionSkipped ==
    [][\A r \in Runs :
          (ChecksMultiOption(r)
              /\ isInvalidOption(db.markets[Head(runs[r].todo).id], runs[r].text)) =>
                  LET m == Head(runs[r].todo).id
                  IN  /\ runs[r].answer.outcome = "AMBIGUOUS"
                      /\ runs'[r].pc # "mCommit"
                      /\ runs'[r].batch = <<>>
                      /\ db' = db
                      /\ db'.markets[m].winningOutcome \notin optionIds(db.markets[m])]_vars

\* a run holds the answer opt_9 for the multi-option market m2, whose pledges
\* are unsettled
C29_Witness ==
    \E r \in Runs :
        /\ runs[r].pc = "mSettle"
        /\ Head(runs[r].todo).id = "m2"
        /\ isMultiOption(db.markets["m2"])
        /\ runs[r].text = "opt_9"
        /\ \A p \in pledgesOf(db, "m2") : ~db.pledges[p].isResolved

(***************************************************************************)
(* C30.  Only due items are touched: the queries of a run select a market  *)
(* only if its resolutionDate is not after the run's date, a poll only if  *)
(* its age is greater than its resolution window (24 hours by default) and *)
(* a quick-play market only if its expiresAt has passed; and no step       *)
(* changes a market (or one of its pledges), a poll or a quick-play market *)
(* that is not due.                                                        *)
(***************************************************************************)
isDue(d, i, t) ==
    IF i \in DOMAIN d.markets THEN d.markets[i].resolutionDate <= DateOf(t)
    ELSE IF i \in DOMAIN d.polls
    THEN d.polls[i].createdAt < HoursOf(t) - resolutionHoursOf(d.polls[i])
    ELSE HoursOf(t) > d.quickPlays[i].expiresAt

\* run r has made the query of the job at pc
Queries(r) == Takes(r, "mQuery") \/ Takes(r, "pQuery") \/ Takes(r, "kQuery")

C30_Selected ==
    \A r \in Runs :
        Queries(r) =>
            \A k \in 1..Len(runs'[r].todo) :
                LET i == runs'[r].todo[k].id
                IN  \/ isDue(db, i, now)
                    \/ i \in DOMAIN db.polls /\ toDateThrows(db.polls[i])

C30_Touched ==
    /\ \A i \in Present : itemOf(db', i) # itemOf(db, i) => isDue(db, i, now)
    /\ \A p \in DOMAIN db.pledges :
          db'.pledges[p] # db.pledges[p] => isDue(db, db.pledges[p].marketId, now)

C30_OnlyDueTouched == [][C30_Selected /\ C30_Touched]_vars

\* a run has settled the due market m1 and has finished without evaluating
\* m2, which is not due yet
C30_Witness ==
    /\ now = 0
    /\ AllIdle
    /\ DOMAIN db.markets = MarketIds
    /\ db.markets["m1"].isResolved
    /\ ~isDue(db, "m2", now)
    /\ hist.evals["m2"] = 0
    /\ db.markets["m2"] = InitMarkets(~db.markets["m2"].isNoLoss)["m2"]
    /\ \A p \in pledgesOf(db, "m2") : db.pledges[p] = InitPledges[p]

(***************************************************************************)
(* C31.  Pipeline order and gating within one item: what marks an item     *)
(* resolved or changes a participant's records is staged, and written,     *)
(* only after the verifier's answer for the item has been received in the  *)
(* same run, and only under the decision ACCEPTED or FALLBACK; under       *)
(* DEFERRED only the retry increment is staged.  The store changes only in *)
(* a commit of what a run has staged, or in a quick-play update.           *)
(***************************************************************************)
C31_PollGate(r) ==
    DecidesPoll(r) =>
        LET snap == Head(runs[r].todo)
            d == decision(runs[r].answer, snap.retryAttempts)
        IN  /\ runs[r].answer # NoAnswer
            /\ db' = db
            /\ IF d = "DEFERRED"
               THEN \A i \in 1..Len(stagedNow(r)) : stagedNow(r)[i].kind = "retry"
               ELSE /\ stagedNow(r) # <<>>
                    /\ Head(stagedNow(r)).kind = "poll"
                    /\ Head(stagedNow(r)).id = snap.id
                    /\ Head(stagedNow(r)).via = d
                    /\ \A i \in 2..Len(stagedNow(r)) :
                          /\ stagedNow(r)[i].kind \in {"profile", "leaderboard"}
                          /\ stagedNow(r)[i].src[1] = snap.id

C31_MarketGate(r) ==
    /\ Takes(r, "mVerify") => (runs'[r].batch = <<>> /\ db' = db)
    /\ Takes(r, "mSettle") =>
          /\ db' = db
          /\ runs'[r].batch # <<>> =>
                /\ runs[r].answer.outcome # NoOutcome
                /\ isValidResolution(db.markets[Head(runs[r].todo).id],
                                     runs[r].answer.outcome)

C31_QuickPlayGate(r) ==
    /\ Takes(r, "kVerify") => db' = db
    /\ DecidesQuickPlay(r) =>
          LET snap == Head(runs[r].todo)
          IN  /\ runs[r].answer # NoAnswer
              /\ decision(runs[r].answer, snap.retryAttempts) = "DEFERRED" =>
                    db'.quickPlays[snap.id].isResolved
                        = db.quickPlays[snap.id].isResolved

\* the store changes only by the commit of a run's batch or by the update of
\* a quick-play decision
C31_Writes ==
    Resolutions(db') # Resolutions(db) =>
        \E r \in Runs :
            \/ /\ Takes(r, "mCommit") \/ Takes(r, "pCommit")
               /\ db' = ApplyBatch(db, runs[r].batch)
            \/ DecidesQuickPlay(r)

\* before the answer for a poll is received only its NO_VOTES resolution,
\* which needs no answer, is staged
C31_NoVotesOnly(r) ==
    Takes(r, "pVerify") =>
        /\ db' = db
        /\ \A i \in 1..Len(stagedNow(r)) :
              /\ stagedNow(r)[i].kind = "pollNoVotes"
              /\ hasNoVotes(db.polls[stagedNow(r)[i].id])

\* C31 as stated: nothing is staged for a poll before its answer is received
C31_Original ==
    [][\A r \in Runs :
          /\ C31_PollGate(r) /\ C31_MarketGate(r) /\ C31_QuickPlayGate(r)
          /\ Takes(r, "pVerify") => stagedNow(r) = <<>>]_vars

C31_GatedExceptNoVotes ==
    [][/\ \A r \in Runs :
             /\ C31_PollGate(r) /\ C31_MarketGate(r) /\ C31_QuickPlayGate(r)
             /\ C31_NoVotesOnly(r) /\ BatchGrows(r)
       /\ C31_Writes]_vars

\* a run has committed a deferral of q1 and the NO_VOTES resolution of q2
C31_Witness ==
    /\ AllIdle
    /\ DOMAIN db.polls = PollIds
    /\ ~db.polls["q1"].isResolved
    /\ db.polls["q1"].retryAttempts = 2
    /\ db.polls["q2"].isResolved
    /\ db.polls["q2"].winningOutcome = "NO_VOTES"
    /\ hist.evals["q2"] = 1

(***************************************************************************)
(* C32.  Private write set: the writes a run makes for item X change only  *)
(* the record of X, the pledges whose marketId is X, and the profile and   *)
(* leaderboard records of the participants of X.  A commit leaves every    *)
(* item it settles nothing for, the pledges of other markets, and the      *)
(* records of users with no stake in an item it settles, as they were.     *)
(***************************************************************************)
participantsOf(d, i) == {st[2] : st \in stakesOf(d, i)}

\* every write of the batch is made on account of an item of X and touches
\* that item, one of its pledges, or one of its participants
C32_Attributed(batch, X) ==
    \A n \in 1..Len(batch) :
        LET op == batch[n]
        IN  CASE op.kind \in {"market", "poll", "pollNoVotes", "retry"} -> op.id \in X
              [] op.kind = "pledge" -> db.pledges[op.id].marketId \in X
              [] op.kind \in {"profile", "leaderboard"} ->
                    \E i \in X : /\ op.src \in stakesOf(db, i)
                                 /\ op.id = op.src[2]
              [] OTHER -> FALSE

C32_Frame(X) ==
    /\ \A i \in Present \ X : itemOf(db', i) = itemOf(db, i)
    /\ \A p \in DOMAIN db.pledges :
          db.pledges[p].marketId \notin X => db'.pledges[p] = db.pledges[p]
    /\ \A u \in Users :
          (\A i \in X : u \notin participantsOf(db, i)) =>
              /\ db'.profile[u] = db.profile[u]
              /\ db'.leaderboard[u] = db.leaderboard[u]

C32_PrivateWriteSet ==
    [][\A r \in Runs :
          /\ Takes(r, "mCommit") =>
                /\ C32_Attributed(runs[r].batch, {Head(runs[r].todo).id})
                /\ C32_Frame({Head(runs[r].todo).id})
          /\ Takes(r, "pCommit") =>
                LET X == {op.id : op \in opsOf(runs[r].batch, "poll")}
                         \cup {op.id : op \in opsOf(runs[r].batch, "pollNoVotes")}
                    D == {op.id : op \in opsOf(runs[r].batch, "retry")}
                IN  /\ C32_Attributed(runs[r].batch, X \cup D)
                    /\ \A op \in opsOf(runs[r].batch, "profile")
                              \cup opsOf(runs[r].batch, "leaderboard") :
                          op.src[1] \in X
                    /\ \A i \in Present \ (X \cup D) : itemOf(db', i) = itemOf(db, i)
                    /\ C32_Frame(X \cup D)
                    /\ \A u \in Users :
                          (\A i \in X : u \notin participantsOf(db, i)) =>
                              /\ db'.profile[u] = db.profile[u]
                              /\ db'.leaderboard[u] = db.leaderboard[u]
          /\ DecidesQuickPlay(r) =>
                /\ C32_Frame({Head(runs[r].todo).id})
                /\ db'.profile = db.profile /\ db'.leaderboard = db.leaderboard]_vars

\* market m2 has been settled at a time when m1 was not, and the user with
\* no pledge on m2 has the records they started with
C32_Witness ==
    /\ DOMAIN db.markets = MarketIds
    /\ db.markets["m2"].isResolved
    /\ ~db.markets["m1"].isResolved
    /\ \A p \in pledgesOf(db, "m2") : db.pledges[p].isResolved
    /\ \A p \in pledgesOf(db, "m1") : db.pledges[p] = InitPledges[p]
    /\ db.profile["u2"] = InitProfile["u2"]
    /\ db.profile["u1"] # InitProfile["u1"]

(***************************************************************************)
(* C33.  Run-level result: a run goes through its jobs in the order        *)
(* markets, daily creation, quick-play generation, polls, quick plays and  *)
(* skips none of them; the failure of one item (an exception while a       *)
(* market, a poll or a quick-play market is resolved, a rejected commit)   *)
(* lets the run go on to the jobs that remain and to the answer 200.  The  *)
(* run answers 500, the remaining jobs not started, only when a job throws *)
(* outside its per-item handling: the query of the market job and the read *)
(* and the write of the day's flag.                                        *)
(***************************************************************************)
jobOf(pc) ==
    CASE pc \in {"mQuery", "mVerify", "mSettle", "mCommit"} -> 1
      [] pc \in {"dFlag", "dTopic", "dSet"} -> 2
      [] pc = "generate" -> 3
      [] pc \in {"pQuery", "pVerify", "pDecide", "pCommit"} -> 4
      [] pc \in {"kQuery", "kVerify", "kDecide"} -> 5
      [] pc \in {"done", "failed"} -> 6
      [] OTHER -> 0

\* run r takes a step of one of its jobs
Works(r) ==
    /\ runs'[r] # runs[r]
    /\ runs[r].pc \notin {"idle", "done", "failed"}

\* the step is the failure of the item run r is processing
ItemFails(r) ==
    \/ MarketThrows(r)
    \/ PollJobThrows(r)
    \/ CommitFails(r)
    \/ DecidesQuickPlay(r) /\ db' = db

C33_RunResult ==
    [][\A r \in Runs :
          /\ (runs[r].pc = "idle" /\ runs'[r] # runs[r]) => runs'[r].pc = "mQuery"
          /\ Works(r) =>
                \/ /\ runs'[r].pc = "failed"
                   /\ runs[r].pc \in {"mQuery", "dFlag", "dSet"}
                \/ /\ runs'[r].pc # "failed"
                   /\ jobOf(runs'[r].pc) \in {jobOf(runs[r].pc), jobOf(runs[r].pc) + 1}
          /\ ItemFails(r) =>
                /\ runs'[r].pc # "failed"
                /\ jobOf(runs'[r].pc) \in {jobOf(runs[r].pc), jobOf(runs[r].pc) + 1}]_vars

\* a run answers 200 after an exception has ended its poll job on a
\* malformed poll
C33_Witness ==
    \E r \in Runs :
        /\ runs[r].pc = "done"
        /\ hist.rejected
        /\ DOMAIN db.polls = PollIds
        /\ toDateThrows(db.polls["q2"])
        /\ hist.evals["q1"] = 1
        /\ ~db.polls["q1"].isResolved

(***************************************************************************)
(* C34.  Order independence of a run: the store after a commit is the same *)
(* whichever order the run has processed its items in, and whichever order *)
(* it has taken the pledges of a market in; a participant who wins on one  *)
(* item and loses on another ends with the same streak either way.         *)
(***************************************************************************)
\* the writes of a batch made for item i
writesFor(batch, i) ==
    SelectSeq(batch, LAMBDA op :
        \/ op.kind \in {"market", "poll", "pollNoVotes", "retry"} /\ op.id = i
        \/ op.kind \in {"profile", "leaderboard"} /\ op.src[1] = i)

\* the batch of the poll job had it taken the polls in the order q2, q1
pollsReordered(batch) == writesFor(batch, "q2") \o writesFor(batch, "q1")

\* the batch of a market had the job taken its pledges in the reverse order
pledgesReordered(r) ==
    LET m == Head(runs[r].todo).id
        w == runs[r].answer.outcome
        ps == pledgeSnapshot(db, m)
    IN  <<MarketOp(m, w)>>
            \o pledgeBatch(db, db.markets[m], w,
                           [n \in 1..Len(ps) |-> ps[Len(ps) + 1 - n]])

C34_OrderIndependent ==
    [][\A r \in Runs :
          /\ Takes(r, "pCommit") =>
                ApplyBatch(db, pollsReordered(runs[r].batch))
                    = ApplyBatch(db, runs[r].batch)
          /\ Takes(r, "mCommit") =>
                ApplyBatch(db, pledgesReordered(r)) = ApplyBatch(db, runs[r].batch)]_vars

(***************************************************************************)
(* C35.  Quick-play retry machine: a due quick-play market whose answers   *)
(* are all UNKNOWN or of LOW confidence, every update accepted, is         *)
(* deferred on its first 5 evaluations (retryAttempts counts them) and is  *)
(* resolved on the 6th as UNRESOLVABLE with confidence LOW; a market that  *)
(* earlier runs have deferred 4 times is resolved so on its 2nd.  A        *)
(* quick-play decision changes the record of its market and nothing else.  *)
(***************************************************************************)
\* no run is between the answer and the update of a quick-play market
QuickPlaysQuiet == \A r \in Runs : runs[r].pc # "kDecide"

C35_Machine ==
    \A k \in DOMAIN db.quickPlays :
        LET market == db.quickPlays[k]
        IN  (k \notin hist.decisive /\ ~hist.rejected) =>
                /\ market.retryAttempts <= MaxRetryAttempts
                /\ (QuickPlaysQuiet /\ ~market.isResolved) =>
                      market.retryAttempts - hist.evals[k] \in InitialRetryAttempts
                /\ market.isResolved =>
                      /\ market.winningOutcome = "UNRESOLVABLE"
                      /\ market.aiConfidence = "LOW"
                      /\ market.retryAttempts = MaxRetryAttempts
                      /\ market.retryAttempts - hist.evals[k] + 1
                            \in InitialRetryAttempts

C35_Frame ==
    \A r \in Runs :
        DecidesQuickPlay(r) =>
            LET k == Head(runs[r].todo).id
            IN  /\ db'.pledges = db.pledges
                /\ db'.profile = db.profile
                /\ db'.leaderboard = db.leaderboard
                /\ db'.markets = db.markets /\ db'.polls = db.polls
                /\ \A o \in DOMAIN db.quickPlays \ {k} :
                      db'.quickPlays[o] = db.quickPlays[o]

C36_Delta(won, a) ==
    CASE ~won -> -10
      [] won /\ a <= 50 -> 5 * (10 + (a \div 5))
      [] won /\ a >= 1000 -> (10 + (a \div 5)) \div 2
      [] OTHER -> 10 + (a \div 5)

\* the pledges the step settles
C36_Settled == {p \in PledgeIds : ~db.pledges[p].isResolved /\ db'.pledges[p].isResolved}

RECURSIVE C36_Sum(_, _, _)
C36_Sum(d, u, ps) ==
    IF ps = {} THEN 0
    ELSE LET p == CHOOSE x \in ps : TRUE
         IN  (IF d.pledges[p].userId = u
              THEN C36_Delta(d.pledges[p].isWinner, d.pledges[p].amountUsd)
              ELSE 0) + C36_Sum(d, u, ps \ {p})

C36_Rule ==
    \A r \in Runs :
        Takes(r, "mCommit") =>
            /\ \A p \in C36_Settled :
                  db'.pledges[p].isWinner
                      = (db.pledges[p].pick = db'.markets[db.pledges[p].marketId].winningOutcome)
            /\ \A u \in Users :
                  /\ db'.profile[u].xp - db.profile[u].xp = C36_Sum(db', u, C36_Settled)
                  /\ db'.leaderboard[u].xp - db.leaderboard[u].xp
                        = C36_Sum(db', u, C36_Settled)

C36_XpRule == [][C36_Rule]_vars

\* m1 settled YES and m2 settled opt_0: winners with stakes 100, 1000 and 50,
\* losers with stakes 40 and 1000
C36_Witness ==
    /\ DOMAIN db.pledges = PledgeIds
    /\ \A p \in PledgeIds : db.pledges[p].isResolved
    /\ db.pledges["p1"].isWinner /\ db.pledges["p5"].isWinner
    /\ db.pledges["p4"].isWinner
    /\ ~db.pledges["p2"].isWinner /\ ~db.pledges["p3"].isWinner
    /\ db.profile["u1"].xp = 30 - 10
    /\ db.profile["u2"].xp = -10
    /\ db.profile["u3"].xp = 105 + 100
    /\ \A u \in Users : db.leaderboard[u].xp = db.profile[u].xp

(***************************************************************************)
(* C37.  Daily creation runs once per day: in runs that do not overlap, no *)
(* day gets more than 3 daily markets, and no run enters the topic loop on *)
(* a day for which an earlier run has already created markets.             *)
(***************************************************************************)
C37_AtMostThree == \A d \in Days : db.dailyMarkets[d] <= Len(Topics)

C37_NoSecondRound ==
    \A r \in Runs :
        (Takes(r, "dFlag") /\ runs'[r].pc = "dTopic") =>
            db.dailyMarkets[DateOf(now)] = 0

C37_OncePerDay == [](C37_AtMostThree) /\ [][C37_NoSecondRound]_vars
====
